---- MODULE Spec2Model ----
(***************************************************************************)
(* Display session of the camera driver (src/Camera/cam_driver.c): the     *)
(* control thread calling start_video_display, start_realtime_display and  *)
(* stop_display, the file and pipe worker threads, and                     *)
(* display_camera_frame with its two display buffer slots.                 *)
(*                                                                         *)
(* The display is scaled down from 128x128 to (2*HalfWidth)x(2*HalfHeight) *)
(* pixels; every size of the code is computed from the width and height    *)
(* exactly as the code computes it.                                        *)
(***************************************************************************)
EXTENDS Integers, Sequences, FiniteSets, TLC

\* ------------------------------------------------------------------ bounds
HalfWidth == 1
HalfHeight == 1
\* worker threads the control thread may create in one run
MaxWorkers == 2
\* calls of display_camera_frame in one run
MaxCalls == 2
\* full frames the producer writes to the pipe in one session
MaxFrames == 2
\* failures of the environment in one run: a malloc, fopen, open, mkfifo or
\* pthread_create that fails, a read that returns an error
MaxFaults == 1
LiveSessions == 1
\* reads of the button line by one call of Button_Lock
MaxReads == 3
\* SIGINT signals delivered to the capture program in one run
MaxSignals == 2

\* --------------------------------------------------------------- constants
\* #define DISPLAY_WIDTH 128, #define DISPLAY_HEIGHT 128: the real display
DISPLAY_WIDTH == 128
DISPLAY_HEIGHT == 128
OLED_WIDTH == 2 * HalfWidth
OLED_HEIGHT == 2 * HalfHeight
\* static UWORD buffer_size = (OLED_WIDTH*2) * OLED_HEIGHT;
buffer_size == ((OLED_WIDTH * 2) * OLED_HEIGHT) % 65536
\* size_t frame_size = OLED_WIDTH * OLED_HEIGHT * 3 / 2;
frame_size == (OLED_WIDTH * OLED_HEIGHT * 3) \div 2

\* #define FPS 12
FPS == 12
\* the 10 of debounceButton: `i < 10` and `count >= 10`
DebounceChecks == 10
\* the 300 of the Camera mode loop: seconds before it gives up polling
MaxDwell == 300
\* long frame_duration_ns = 1000000000 / FPS;
frame_duration_ns == 1000000000 \div FPS

NULL == 0
\* content of a byte of malloc'ed memory that was never written
UNINIT == -1

Workers == 1..MaxWorkers

\* The byte at position p (1-based) of a source, pipe stream or file: a test
\* pattern with a different byte at every position, so that frames differ.
SourceByte(p) == (37 * p + 16) % 256

\* The k-th (1-based) full frame of a source.
SourceFrame(k) == [i \in 1..frame_size |-> SourceByte((k - 1) * frame_size + i)]

\* lengths of the files start_video_display is called on: shorter than a
\* frame, one frame (end of file is a zero-byte read), two frames and a
\* partial tail (end of file is a short read)
FileLens == {1, frame_size, 2 * frame_size + 1}

\* byte counts one read() of the pipe may return when `want` are requested:
\* all of them, or half a frame
ReadSizes(want) == {n \in {frame_size \div 2, want} : n >= 1 /\ n <= want}

VARIABLES
    display_active,   \* static volatile int display_active
    display_thread,   \* static pthread_t display_thread (0: never set)
    pipe_created,     \* static volatile int pipe_created
    pipe_path,        \* what PIPE_PATH names in the file system
    oled_buffers,     \* static UBYTE *oled_buffers[2] (slot 0, 1 -> block)
    current_buffer,   \* static int current_buffer
    heap,             \* display buffer blocks ever malloc'ed: id -> bytes
    mpc,              \* control thread: where it is in its current call
    marg,             \* control thread: argument of the call in progress
    ret,              \* what the control thread's last start call returned
    wk,               \* worker threads: position and locals
    nworkers,         \* threads created so far
    joins,            \* per worker, completed pthread_join calls on it
    ncalls,           \* calls of display_camera_frame so far
    presented,        \* what OLED_1in5_rgb_Display was called with, in order
    nfaults,          \* failures of the environment so far
    ub,               \* undefined behaviour met (join of a joined thread, ...)
    btn,              \* the call of Button_Lock or debounceButton in progress
    app,              \* OLED_1in5_rgb_test: position and mode of its main loop
    bat               \* battery telemetry: its threads and battery_mutex

vars == <<display_active, display_thread, pipe_created, pipe_path,
          oled_buffers, current_buffer, heap, mpc, marg, ret, wk,
          nworkers, joins, ncalls, presented, nfaults, ub, btn, app, bat>>

\* --------------------------------------------------------- ColorConverter
\* a clamp that forgets the upper end
clamp8_low(x) == IF x < 0 THEN 0 ELSE x

\* (x < 0) ? 0 : ((x > 255) ? 255 : x)
clamp8(x) == IF x < 0 THEN 0 ELSE IF x > 255 THEN 255 ELSE x

\* x >> 8 of an int: the arithmetic shift, rounding towards minus infinity
shr8(x) == x \div 256

\* a conversion that takes the two chroma samples the other way round
yuv420_to_rgb_swapped(y, u, v) ==
    LET c == y - 16
        d == v - 128
        e == u - 128
    IN [r |-> clamp8(shr8(298 * c + 409 * e + 128)),
        g |-> clamp8(shr8(298 * c - 100 * d - 208 * e + 128)),
        b |-> clamp8(shr8(298 * c + 516 * d + 128))]

yuv420_to_rgb(y, u, v) ==
    LET c == y - 16
        d == u - 128
        e == v - 128
        r_temp == shr8(298 * c + 409 * e + 128)
        g_temp == shr8(298 * c - 100 * d - 208 * e + 128)
        b_temp == shr8(298 * c + 516 * d + 128)
    IN [r |-> clamp8(r_temp), g |-> clamp8(g_temp), b |-> clamp8(b_temp)]

\* UWORD color = ((r & 0xF8) << 8) | ((g & 0xFC) << 3) | (b >> 3);
rgb565(r, g, b) ==
    (((r - (r % 8)) * 256) + ((g - (g % 4)) * 8) + (b \div 8)) % 65536

\* a luma index with row and column exchanged
y_index_transposed(row, col) == col * OLED_WIDTH + row

\* int y_index = row * OLED_WIDTH + col;
y_index(row, col) == row * OLED_WIDTH + col

\* a chroma index taken from the pixel row instead of the chroma row
uv_index_pixelrow(row, col) == row * (OLED_WIDTH \div 2) + (col \div 2)

\* int uv_index = uv_row * (OLED_WIDTH / 2) + uv_col;
uv_index(row, col) == (row \div 2) * (OLED_WIDTH \div 2) + (col \div 2)

\* offsets of the planes in the frame: y_plane, u_plane, v_plane
u_plane == OLED_WIDTH * OLED_HEIGHT
v_plane == u_plane + ((OLED_WIDTH * OLED_HEIGHT) \div 4)

\* UWORD pos = (row * OLED_WIDTH + col) * 2;
PixelPos(row, col) == ((row * OLED_WIDTH + col) * 2) % 65536

\* The colour the loop body computes for pixel (row, col) of frame f
\* (f is 1-based: the byte at C index i is f[i + 1]).
PixelColor(f, row, col) ==
    LET y_val == f[y_index(row, col) + 1]
        u_val == f[u_plane + uv_index(row, col) + 1]
        v_val == f[v_plane + uv_index(row, col) + 1]
        rgb == yuv420_to_rgb(y_val, u_val, v_val)
    IN rgb565(rgb.r, rgb.g, rgb.b)

\* The locals of the loop body after pixel (row, col) of frame f.
PixelLocals(f, row, col) ==
    LET y_val == f[y_index(row, col) + 1]
        u_val == f[u_plane + uv_index(row, col) + 1]
        v_val == f[v_plane + uv_index(row, col) + 1]
        rgb == yuv420_to_rgb(y_val, u_val, v_val)
    IN [row |-> row, col |-> col,
        y_val |-> y_val, u_val |-> u_val, v_val |-> v_val,
        r |-> rgb.r, g |-> rgb.g, b |-> rgb.b,
        color |-> rgb565(rgb.r, rgb.g, rgb.b), pos |-> PixelPos(row, col)]

\* stores that put the low byte first
PaintPixel_little(b, f, row, col) ==
    LET px == PixelLocals(f, row, col)
    IN [b EXCEPT ![px.pos + 1] = px.color % 256,
                 ![px.pos + 2] = (px.color \div 256) % 256]

\* The two stores of the loop body into buffer b (1-based sequence).
PaintPixel(b, f, row, col) ==
    LET color == PixelColor(f, row, col)
        pos == PixelPos(row, col)
    IN [b EXCEPT ![pos + 1] = (color \div 256) % 256,
                 ![pos + 2] = color % 256]

\* for (int col = 0; col < OLED_WIDTH; col++) { ... }: the inner loop, from
\* column col on, over one row of the buffer
RECURSIVE PaintRow(_, _, _, _)
PaintRow(b, f, row, col) ==
    IF col < OLED_WIDTH
    THEN PaintRow(PaintPixel(b, f, row, col), f, row, col + 1)
    ELSE b

\* for (int row = 0; row < OLED_HEIGHT; row++) { ... }: the whole pass, from
\* row `row` on
RECURSIVE PaintFrom(_, _, _)
PaintFrom(b, f, row) ==
    IF row < OLED_HEIGHT
    THEN PaintFrom(PaintRow(b, f, row, 0), f, row + 1)
    ELSE b

\* does the conversion of row `row` read a byte of f that was never written
ReadsUninit(f, row) ==
    \E col \in 0..(OLED_WIDTH - 1) :
        \/ f[y_index(row, col) + 1] = UNINIT
        \/ f[u_plane + uv_index(row, col) + 1] = UNINIT
        \/ f[v_plane + uv_index(row, col) + 1] = UNINIT

FreshBlock == [i \in 1..buffer_size |-> UNINIT]
ZeroBlock == [i \in 1..buffer_size |-> 0]
FreshFrame == [i \in 1..frame_size |-> UNINIT]

\* ------------------------------------------------------------------- state
NoWorker ==
    [pc |-> "none", kind |-> "none", flen |-> 0, pos |-> 0,
     total_read |-> 0, active_buffer |-> 0, next_buffer |-> 0,
     fb |-> <<>>, arg |-> 0, size |-> 0, cb1 |-> NULL,
     slot |-> 0, row |-> 0, px |-> <<>>, rpc |-> "none", fail |-> "none",
     gap |-> 0]

\* no call of a button function in progress
NoCall ==
    [fn |-> "none", pc |-> "none", result |-> 0,
     lastState |-> 0, count |-> 0, i |-> 0, first |-> 0, interval |-> <<>>,
     reads |-> <<>>, uninit |-> FALSE]

\* the application is not running
NoApp == [pc |-> "none"]

\* the telemetry threads are not running
NoBattery == [pc |-> "none"]

Init ==
    /\ display_active = 0
    /\ display_thread = 0
    /\ pipe_created = 0
    /\ pipe_path = "absent"
    \* oled_init has run init_display_buffers: two zeroed blocks
    /\ heap = <<ZeroBlock, ZeroBlock>>
    /\ oled_buffers = [s \in {0, 1} |-> s + 1]
    /\ current_buffer = 0
    /\ mpc = "idle"
    /\ marg = [kind |-> "none", flen |-> 0]
    /\ ret = 0
    /\ wk = [w \in Workers |-> NoWorker]
    /\ nworkers = 0
    /\ joins = [w \in Workers |-> 0]
    /\ ncalls = 0
    /\ presented = <<>>
    /\ nfaults = 0
    /\ ub = FALSE
    \* the driver alone: no application around it
    /\ btn = NoCall
    /\ app = NoApp
    /\ bat = NoBattery

is_display_active == display_active

\* a thread that was created and has not returned from its thread function
Alive(w) == wk[w].pc \notin {"none", "exited"}

SetW(w, r) == wk' = [wk EXCEPT ![w] = r]

driver_vars == <<pipe_created, pipe_path, display_thread, nworkers, joins>>
frame_vars == <<oled_buffers, current_buffer, heap, ncalls, presented, ub>>
app_vars == <<btn, app, bat>>
main_vars == <<mpc, marg, ret, btn, app, bat>>

\* a call into the environment succeeds, or fails within the budget
Succeeds(ok) == IF ok THEN nfaults' = nfaults
                ELSE nfaults < MaxFaults /\ nfaults' = nfaults + 1

\* ------------------------------------------- control thread: start calls
\* a start function that skips the check of display_active
AlreadyActive_never == FALSE

\* if (display_active)                          (both start functions)
AlreadyActive == display_active # 0

\* start_video_display up to the fclose of the test open
StartVideoCheck ==
    /\ mpc = "idle"
    /\ IF AlreadyActive
       THEN /\ ret' = -1
            /\ UNCHANGED <<mpc, marg, nfaults>>
       ELSE /\ nworkers < MaxWorkers
            /\ \E openable \in BOOLEAN, len \in FileLens :
                  IF openable
                  THEN /\ nfaults' = nfaults
                       /\ mpc' = "start_set"
                       /\ marg' = [kind |-> "file", flen |-> len]
                       /\ UNCHANGED ret
                  ELSE /\ Succeeds(FALSE)
                       /\ ret' = -1
                       /\ UNCHANGED <<mpc, marg>>
    /\ UNCHANGED <<display_active, wk, driver_vars, frame_vars>>

\* start_realtime_display up to the mkfifo
StartRealtimeCheck ==
    /\ mpc = "idle"
    /\ IF AlreadyActive
       THEN /\ ret' = -1
            /\ UNCHANGED <<mpc, marg, pipe_path, pipe_created, nfaults>>
       ELSE /\ nworkers < MaxWorkers
            /\ IF pipe_path = "absent"
               THEN \E made \in BOOLEAN :
                       IF made
                       THEN /\ nfaults' = nfaults
                            /\ pipe_path' = "fifo"
                            /\ pipe_created' = 1
                            /\ mpc' = "start_set"
                            /\ marg' = [kind |-> "pipe", flen |-> 0]
                            /\ UNCHANGED ret
                       ELSE /\ Succeeds(FALSE)
                            /\ ret' = -1
                            /\ UNCHANGED <<pipe_path, pipe_created, mpc, marg>>
               ELSE /\ mpc' = "start_set"
                    /\ marg' = [kind |-> "pipe", flen |-> 0]
                    /\ UNCHANGED <<pipe_path, pipe_created, ret, nfaults>>
    /\ UNCHANGED <<display_active, display_thread, nworkers, joins, wk,
                   frame_vars>>

\* display_active = 1;
StartSet ==
    /\ mpc = "start_set"
    /\ display_active' = 1
    /\ mpc' = "start_create"
    /\ UNCHANGED <<marg, ret, wk, driver_vars, frame_vars>>
    /\ UNCHANGED nfaults

\* a failure path of pthread_create that leaves the flag as it is
ResetFlag_skip == UNCHANGED display_active

\* display_active = 0;    (on the failure path of pthread_create)
ResetFlag == display_active' = 0

\* pthread_create(&display_thread, ...), and the return
StartCreate ==
    /\ mpc = "start_create"
    /\ \E created \in BOOLEAN :
          /\ Succeeds(created)
          /\ IF created
             THEN /\ nworkers' = nworkers + 1
                  /\ display_thread' = nworkers + 1
                  /\ SetW(nworkers + 1,
                          [NoWorker EXCEPT
                             !.kind = marg.kind, !.flen = marg.flen,
                             !.pc = IF marg.kind = "file" THEN "f_open"
                                    ELSE "p_open"])
                  /\ ret' = 0
                  /\ UNCHANGED display_active
             ELSE /\ ResetFlag
                  /\ ret' = -1
                  /\ UNCHANGED <<nworkers, display_thread, wk>>
    /\ mpc' = "idle"
    /\ marg' = [kind |-> "none", flen |-> 0]
    /\ UNCHANGED <<pipe_created, pipe_path, joins, frame_vars>>

\* -------------------------------------------- control thread: stop_display
\* if (display_active) ... else return
StopCheck ==
    /\ mpc = "idle"
    /\ IF display_active # 0
       THEN mpc' = "stop_clear"
       ELSE UNCHANGED mpc
    /\ UNCHANGED <<display_active, marg, ret, wk, driver_vars, frame_vars>>
    /\ UNCHANGED nfaults

\* a stop_display that joins without clearing the flag
StopClear_keep ==
    /\ mpc = "stop_clear"
    /\ mpc' = "stop_join"
    /\ UNCHANGED <<display_active, marg, ret, wk, driver_vars, frame_vars>>
    /\ UNCHANGED nfaults

\* display_active = 0;
StopClear ==
    /\ mpc = "stop_clear"
    /\ display_active' = 0
    /\ mpc' = "stop_join"
    /\ UNCHANGED <<marg, ret, wk, driver_vars, frame_vars>>
    /\ UNCHANGED nfaults

\* a stop_display that does not wait for the thread to end
ThreadEnded_nowait(w) == TRUE

\* what pthread_join(w) waits for: the thread function of w has returned
ThreadEnded(w) == wk[w].pc = "exited"

\* pthread_join(display_thread, NULL): returns once that thread has ended.
\* Joining a thread that was joined before, or no thread, is undefined.
StopJoin ==
    /\ mpc = "stop_join"
    /\ IF display_thread \in Workers /\ joins[display_thread] = 0
       THEN /\ ThreadEnded(display_thread)
            /\ joins' = [joins EXCEPT ![display_thread] = 1]
            /\ UNCHANGED ub
       ELSE /\ ub' = TRUE
            /\ UNCHANGED joins
    /\ mpc' = "idle"
    /\ UNCHANGED <<display_active, marg, ret, wk, pipe_created, pipe_path,
                   display_thread, nworkers, oled_buffers, current_buffer,
                   heap, ncalls, presented>>
    /\ UNCHANGED nfaults

\* --------------------------------------------------- display_camera_frame
\* The call display_camera_frame(fb[arg], frame_size) by worker w, which
\* continues at `rpc` when the call returns.
CallDisplay(w, arg, rpc) ==
    /\ ncalls < MaxCalls
    /\ ncalls' = ncalls + 1
    /\ SetW(w, [wk[w] EXCEPT !.pc = "d_malloc0", !.arg = arg,
                             !.size = frame_size, !.rpc = rpc])

DcfReturn(w) ==
    [wk[w] EXCEPT !.pc = wk[w].rpc, !.cb1 = NULL, !.row = 0, !.px = <<>>]

\* if((oled_buffers[s] = (UBYTE *)malloc(buffer_size)) == NULL) return;
DcfMalloc(w, s, nextpc) ==
    /\ wk[w].pc = (IF s = 0 THEN "d_malloc0" ELSE "d_malloc1")
    /\ \E ok \in BOOLEAN :
          /\ Succeeds(ok)
          /\ IF ok
             THEN /\ heap' = Append(heap, FreshBlock)
                  /\ oled_buffers' = [oled_buffers EXCEPT ![s] = Len(heap) + 1]
                  /\ SetW(w, [wk[w] EXCEPT !.pc = nextpc])
             ELSE /\ oled_buffers' = [oled_buffers EXCEPT ![s] = NULL]
                  /\ SetW(w, DcfReturn(w))
                  /\ UNCHANGED heap
    /\ UNCHANGED <<display_active, main_vars, driver_vars, current_buffer,
                   ncalls, presented, ub>>

DcfMalloc0(w) == DcfMalloc(w, 0, "d_malloc1")
DcfMalloc1(w) == DcfMalloc(w, 1, "d_check")

\* a check of the frame that looks at the pointer only
InvalidFrame_pointer(fb, size) == fb = <<>>

\* if (!frame_buffer || frame_size < (OLED_WIDTH * OLED_HEIGHT * 3 / 2))
InvalidFrame(fb, size) ==
    fb = <<>> \/ size < (OLED_WIDTH * OLED_HEIGHT * 3) \div 2

\* the NULL check of both slots, current_buffer1 = oled_buffers[current_buffer]
\* and the check of the frame pointer and size
DcfCheck(w) ==
    /\ wk[w].pc = "d_check"
    /\ IF oled_buffers[0] = NULL \/ oled_buffers[1] = NULL
          \/ InvalidFrame(wk[w].fb, wk[w].size)
       THEN SetW(w, DcfReturn(w))
       ELSE SetW(w, [wk[w] EXCEPT !.pc = "d_paint", !.row = 0,
                                  !.slot = current_buffer,
                                  !.cb1 = oled_buffers[current_buffer]])
    /\ UNCHANGED <<display_active, main_vars, driver_vars, frame_vars>>
    /\ UNCHANGED nfaults

\* the frame the call of worker w was given
DcfFrame(w) == wk[w].fb[wk[w].arg + 1]

\* a conversion loop that stops one row early
PaintDone_early(row) == ~(row < OLED_HEIGHT - 1)

\* row < OLED_HEIGHT, negated: the outer loop of the conversion is left
PaintDone(row) == ~(row < OLED_HEIGHT)

\* one pass of the outer loop body: all pixels of row `row`
DcfPaint(w) ==
    /\ wk[w].pc = "d_paint"
    /\ ~PaintDone(wk[w].row)
    /\ heap' = [heap EXCEPT ![wk[w].cb1] =
                               PaintRow(@, DcfFrame(w), wk[w].row, 0)]
    /\ ub' = (ub \/ ReadsUninit(DcfFrame(w), wk[w].row))
    /\ SetW(w, [wk[w] EXCEPT
                  !.row = @ + 1,
                  !.px = PixelLocals(DcfFrame(w), wk[w].row, OLED_WIDTH - 1)])
    /\ UNCHANGED <<display_active, main_vars, driver_vars, oled_buffers,
                   current_buffer, ncalls, presented>>
    /\ UNCHANGED nfaults

\* the buffer the call hands to OLED_1in5_rgb_Display
DisplayArg(w) == wk[w].cb1

\* OLED_1in5_rgb_Display(current_buffer1): the call is entered ...
DcfDisplayBegin(w) ==
    /\ wk[w].pc = "d_paint"
    /\ PaintDone(wk[w].row)
    /\ SetW(w, [wk[w] EXCEPT !.pc = "d_display"])
    /\ UNCHANGED <<display_active, main_vars, driver_vars, frame_vars>>
    /\ UNCHANGED nfaults

\* ... and returns, the display having read the whole buffer
DcfDisplayEnd(w) ==
    /\ wk[w].pc = "d_display"
    /\ presented' = Append(presented,
                           [w |-> w, slot |-> wk[w].slot, blk |-> DisplayArg(w),
                            frame |-> DcfFrame(w), buf |-> heap[DisplayArg(w)],
                            active |-> display_active])
    /\ SetW(w, [wk[w] EXCEPT !.pc = "d_flip"])
    /\ UNCHANGED <<display_active, main_vars, driver_vars, oled_buffers,
                   current_buffer, heap, ncalls, ub>>
    /\ UNCHANGED nfaults

\* a display_camera_frame that keeps using the same slot
Flip_none(cb) == cb

\* current_buffer = 1 - current_buffer;
Flip(cb) == 1 - cb

DcfFlip(w) ==
    /\ wk[w].pc = "d_flip"
    /\ current_buffer' = Flip(current_buffer)
    /\ SetW(w, DcfReturn(w))
    /\ UNCHANGED <<display_active, main_vars, driver_vars, oled_buffers,
                   heap, ncalls, presented, ub>>
    /\ UNCHANGED nfaults

\* ---------------------------------------------------------------- sources
\* buf after n bytes of the source, from position pos on, were stored at
\* offset off (buf + off in the code)
StoreBytes(buf, off, n, pos) ==
    [i \in 1..frame_size |->
        IF i > off /\ i <= off + n THEN SourceByte(pos + (i - off)) ELSE buf[i]]

\* the time an iteration can be found to have taken when its frame was
\* displayed: just under the frame period, or the period
ElapsedTimes == {frame_duration_ns - 1, frame_duration_ns}

\* if (elapsed_ns < frame_duration_ns) nanosleep(frame_duration_ns -
\* elapsed_ns): the nanoseconds slept
sleep_time(elapsed_ns) ==
    IF elapsed_ns < frame_duration_ns THEN frame_duration_ns - elapsed_ns ELSE 0

\* Worker w after its frees, its close and the return of its thread
\* function: its locals are gone, `fail` records why it ended (a failed read,
\* if there was one, else `why`).
Ended(w, why) ==
    [NoWorker EXCEPT !.pc = "exited",
                     !.fail = IF wk[w].fail = "none" THEN why ELSE wk[w].fail]

\* an early exit of a thread function: display_active = 0; return NULL;
GiveUp(w, why) ==
    /\ display_active' = 0
    /\ SetW(w, Ended(w, why))

\* ------------------------------------------------------- pipe_thread_func
\* int pipe_fd = open(PIPE_PATH, O_RDONLY);
PipeOpen(w) ==
    /\ wk[w].pc = "p_open"
    /\ \E ok \in BOOLEAN :
          /\ Succeeds(ok)
          /\ IF ok
             THEN /\ SetW(w, [wk[w] EXCEPT !.pc = "p_alloc"])
                  /\ UNCHANGED display_active
             ELSE GiveUp(w, "open")
    /\ UNCHANGED <<main_vars, driver_vars, frame_vars>>

\* the two malloc(frame_size) and the locals set before the first read
\* (frames_received and start_time only feed the log line and are left out)
PipeAlloc(w) ==
    /\ wk[w].pc = "p_alloc"
    /\ \E ok \in BOOLEAN :
          /\ Succeeds(ok)
          /\ IF ok
             THEN /\ SetW(w, [wk[w] EXCEPT !.pc = "p_first_test",
                                           !.fb = <<FreshFrame, FreshFrame>>,
                                           !.active_buffer = 0,
                                           !.total_read = 0])
                  /\ UNCHANGED display_active
             ELSE GiveUp(w, "alloc")
    /\ UNCHANGED <<main_vars, driver_vars, frame_vars>>

\* a loop condition that never sees the flag cleared
KeepRunning_always == TRUE

\* the loop condition `display_active` of the workers' loops
KeepRunning == display_active # 0

\* while(total_read < frame_size && display_active)
ReadMore(w) == wk[w].total_read < frame_size /\ KeepRunning

PipeTest(w, at, body, after) ==
    /\ wk[w].pc = at
    /\ SetW(w, [wk[w] EXCEPT !.pc = IF ReadMore(w) THEN body ELSE after])
    /\ UNCHANGED <<display_active, main_vars, driver_vars, frame_vars>>
    /\ UNCHANGED nfaults

\* bytes_read = read(pipe_fd, frame_buffers[target] + total_read,
\*                   frame_size - total_read);
\* if (bytes_read <= 0) break; total_read += bytes_read;
PipeRead(w, at, target, again, after) ==
    /\ wk[w].pc = at
    /\ LET want == frame_size - wk[w].total_read
       IN \/ \E n \in ReadSizes(want) :
                /\ wk[w].pos + n <= MaxFrames * frame_size
                /\ nfaults' = nfaults
                /\ SetW(w, [wk[w] EXCEPT
                              !.fb[target + 1] =
                                  StoreBytes(@, wk[w].total_read, n, wk[w].pos),
                              !.pos = @ + n,
                              !.total_read = @ + n,
                              !.gap = 0,
                              !.pc = again])
          \/ \E why \in {"eof", "err"} :
                /\ Succeeds(why = "eof")
                /\ SetW(w, [wk[w] EXCEPT !.fail = why, !.gap = 0,
                                         !.pc = after])
    /\ UNCHANGED <<display_active, main_vars, driver_vars, frame_vars>>

\* the index of the buffer the read worker w is at stores into:
\* frame_buffers[0] in the first read loop, frame_buffers[next_buffer] in the
\* one of the frame loop
ReadTarget(w) == IF wk[w].pc = "p_first_read" THEN 0 ELSE wk[w].next_buffer

PipeFirstTest(w) == PipeTest(w, "p_first_test", "p_first_read", "p_first_check")
PipeFirstRead(w) ==
    PipeRead(w, "p_first_read", ReadTarget(w), "p_first_test", "p_first_check")

\* a completeness check that accepts any frame with some bytes in it
FrameComplete_any(total) == total > 0

\* a frame counts as received when all frame_size bytes were read
FrameComplete(total) == ~(total < frame_size)

\* if (total_read < frame_size) { ...; display_active = 0; return NULL; }
\* frames_received++;
PipeFirstCheck(w) ==
    /\ wk[w].pc = "p_first_check"
    /\ IF FrameComplete(wk[w].total_read)
       THEN /\ SetW(w, [wk[w] EXCEPT !.pc = "p_loop_test"])
            /\ UNCHANGED display_active
       ELSE GiveUp(w, "stopped")
    /\ UNCHANGED <<main_vars, driver_vars, frame_vars>>
    /\ UNCHANGED nfaults

\* while (display_active) { display_camera_frame(frame_buffers[active_buffer],
\* frame_size); ... } and, when the loop is left, the frees, the close and
\* the return
PipeLoopTest(w) ==
    /\ wk[w].pc = "p_loop_test"
    /\ IF KeepRunning
       THEN CallDisplay(w, wk[w].active_buffer, "p_next")
       ELSE /\ SetW(w, Ended(w, "none"))
            /\ UNCHANGED ncalls
    /\ UNCHANGED <<display_active, main_vars, driver_vars, oled_buffers,
                   current_buffer, heap, presented, ub>>
    /\ UNCHANGED nfaults

\* a frame loop that reads into the buffer it has just displayed
NextBuffer_same(active_buffer) == active_buffer

\* 1 - active_buffer     (0->1, 1->0)
NextBuffer(active_buffer) == 1 - active_buffer

\* int next_buffer = 1 - active_buffer; total_read = 0;
\* The stream loop reads no clock and does not sleep: the next frame is
\* requested as soon as the call returned, gap after the iteration began.
PipeNext(w) ==
    /\ wk[w].pc = "p_next"
    /\ \E elapsed_ns \in ElapsedTimes :
          SetW(w, [wk[w] EXCEPT !.pc = "p_test",
                                !.next_buffer = NextBuffer(wk[w].active_buffer),
                                !.total_read = 0,
                                !.gap = elapsed_ns])
    /\ UNCHANGED <<display_active, main_vars, driver_vars, frame_vars>>
    /\ UNCHANGED nfaults

PipeLoopReadTest(w) == PipeTest(w, "p_test", "p_read", "p_check")
PipeLoopRead(w) == PipeRead(w, "p_read", ReadTarget(w), "p_test", "p_check")

\* if (total_read < frame_size) break;   (then the frees, close and return)
\* active_buffer = next_buffer; frames_received++;
PipeCheck(w) ==
    /\ wk[w].pc = "p_check"
    /\ IF FrameComplete(wk[w].total_read)
       THEN SetW(w, [wk[w] EXCEPT !.pc = "p_loop_test",
                                  !.active_buffer = wk[w].next_buffer])
       ELSE SetW(w, Ended(w, "stopped"))
    /\ UNCHANGED <<display_active, main_vars, driver_vars, frame_vars>>
    /\ UNCHANGED nfaults

\* ---------------------------------------------------- display_thread_func
\* FILE* file = fopen(filename, "rb");
FileOpen(w) ==
    /\ wk[w].pc = "f_open"
    /\ \E ok \in BOOLEAN :
          /\ Succeeds(ok)
          /\ IF ok
             THEN /\ SetW(w, [wk[w] EXCEPT !.pc = "f_alloc", !.pos = 0])
                  /\ UNCHANGED display_active
             ELSE GiveUp(w, "open")
    /\ UNCHANGED <<main_vars, driver_vars, frame_vars>>

\* uint8_t* frame_buffer = malloc(frame_size);
FileAlloc(w) ==
    /\ wk[w].pc = "f_alloc"
    /\ \E ok \in BOOLEAN :
          /\ Succeeds(ok)
          /\ IF ok
             THEN /\ SetW(w, [wk[w] EXCEPT !.pc = "f_loop_test",
                                           !.fb = <<FreshFrame>>])
                  /\ UNCHANGED display_active
             ELSE GiveUp(w, "alloc")
    /\ UNCHANGED <<main_vars, driver_vars, frame_vars>>

\* while (display_active), and after the loop the free, fclose and return.
\* An iteration is begun only while the run may still display a frame.
FileLoopTest(w) ==
    /\ wk[w].pc = "f_loop_test"
    /\ IF KeepRunning
       THEN /\ ncalls < MaxCalls
            /\ SetW(w, [wk[w] EXCEPT !.pc = "f_read"])
       ELSE SetW(w, Ended(w, "none"))
    /\ UNCHANGED <<display_active, main_vars, driver_vars, frame_vars>>
    /\ UNCHANGED nfaults

\* what fread(frame_buffer, 1, frame_size, file) returns at offset pos of a
\* file of flen bytes
fread(flen, pos) == IF flen - pos < frame_size THEN flen - pos ELSE frame_size

\* the offset rewind(file) sets
rewind(pos) == 0

\* a short read that ends the thread function instead of rewinding
Continue_return == "exited"

\* continue;   (after the rewind: on to the loop condition)
Continue == "f_loop_test"

\* bytes_read = fread(...); if (bytes_read < frame_size) { rewind(file);
\* continue; }  display_camera_frame(frame_buffer, frame_size);
FileRead(w) ==
    /\ wk[w].pc = "f_read"
    /\ LET bytes_read == fread(wk[w].flen, wk[w].pos)
           filled == [wk[w] EXCEPT
                        !.fb[1] = StoreBytes(@, 0, bytes_read, wk[w].pos),
                        !.total_read = bytes_read,
                        !.gap = 0,
                        !.pos = @ + bytes_read]
       IN IF bytes_read < frame_size
          THEN /\ SetW(w, [filled EXCEPT !.pos = rewind(filled.pos),
                                         !.pc = Continue])
               /\ UNCHANGED ncalls
          ELSE /\ ncalls' = ncalls + 1
               /\ SetW(w, [filled EXCEPT !.pc = "d_malloc0", !.arg = 0,
                                         !.size = frame_size,
                                         !.rpc = "f_pace"])
    /\ UNCHANGED <<display_active, main_vars, driver_vars, oled_buffers,
                   current_buffer, heap, presented, ub>>
    /\ UNCHANGED nfaults

\* the frame pacing: clock_gettime, and nanosleep of the rest of the period;
\* gap is the time from the start of the iteration (frame_time) to its end
FilePace(w) ==
    /\ wk[w].pc = "f_pace"
    /\ \E elapsed_ns \in ElapsedTimes :
          SetW(w, [wk[w] EXCEPT !.pc = "f_loop_test",
                                !.gap = elapsed_ns + sleep_time(elapsed_ns)])
    /\ UNCHANGED <<display_active, main_vars, driver_vars, frame_vars>>
    /\ UNCHANGED nfaults

\* -------------------------------------------------------------------- Next
\* The start and stop functions are called by an application that is left
\* open here: any call at any time, one at a time.
Next ==
    \/ StartVideoCheck /\ UNCHANGED app_vars
    \/ StartRealtimeCheck /\ UNCHANGED app_vars
    \/ StartSet /\ UNCHANGED app_vars
    \/ StartCreate /\ UNCHANGED app_vars
    \/ StopCheck /\ UNCHANGED app_vars
    \/ StopClear /\ UNCHANGED app_vars
    \/ StopJoin /\ UNCHANGED app_vars
    \/ \E w \in Workers :
          \/ PipeOpen(w)
          \/ PipeAlloc(w)
          \/ PipeFirstTest(w)
          \/ PipeFirstRead(w)
          \/ PipeFirstCheck(w)
          \/ PipeLoopTest(w)
          \/ PipeNext(w)
          \/ PipeLoopReadTest(w)
          \/ PipeLoopRead(w)
          \/ PipeCheck(w)
          \/ FileOpen(w)
          \/ FileAlloc(w)
          \/ FileLoopTest(w)
          \/ FileRead(w)
          \/ FilePace(w)
          \/ DcfMalloc0(w)
          \/ DcfMalloc1(w)
          \/ DcfCheck(w)
          \/ DcfPaint(w)
          \/ DcfDisplayBegin(w)
          \/ DcfDisplayEnd(w)
          \/ DcfFlip(w)

Spec == Init /\ [][Next]_vars

\* ----------------------------------------------------------- scheduling
\* the steps of the thread function of worker w, and of the calls it makes
WorkerNext(w) ==
    \/ PipeOpen(w) \/ PipeAlloc(w) \/ PipeFirstTest(w) \/ PipeFirstRead(w)
    \/ PipeFirstCheck(w) \/ PipeLoopTest(w) \/ PipeNext(w)
    \/ PipeLoopReadTest(w) \/ PipeLoopRead(w) \/ PipeCheck(w)
    \/ FileOpen(w) \/ FileAlloc(w) \/ FileLoopTest(w) \/ FileRead(w)
    \/ FilePace(w)
    \/ DcfMalloc0(w) \/ DcfMalloc1(w) \/ DcfCheck(w) \/ DcfPaint(w)
    \/ DcfDisplayBegin(w) \/ DcfDisplayEnd(w) \/ DcfFlip(w)

\* the steps of stop_display once its check has passed
StopNext == (StopClear \/ StopJoin) /\ UNCHANGED app_vars

\* Every thread that can take a step is scheduled in the end: a worker
\* thread keeps running (a blocking open or read it is in returns), and the
\* control thread, once inside stop_display, goes on to the join and returns
\* from it when the joined thread has ended.  Whether and when the
\* application calls a start or stop function is left open.
Fairness ==
    /\ \A w \in Workers : WF_vars(WorkerNext(w))
    /\ WF_vars(StopNext)

\* The runs in which termination is followed: those of the first
\* LiveSessions sessions; no start call gets past its checks after them.
FirstSessions == mpc' = "start_set" => nworkers < LiveSessions

NextLive ==
    \/ StartVideoCheck /\ FirstSessions /\ UNCHANGED app_vars
    \/ StartRealtimeCheck /\ FirstSessions /\ UNCHANGED app_vars
    \/ StartSet /\ UNCHANGED app_vars
    \/ StartCreate /\ UNCHANGED app_vars
    \/ StopCheck /\ UNCHANGED app_vars
    \/ StopClear /\ UNCHANGED app_vars
    \/ StopJoin /\ UNCHANGED app_vars
    \/ \E w \in Workers : WorkerNext(w)

SpecLive == Init /\ [][NextLive]_vars /\ Fairness

\* ------------------------------ display_camera_frame called on any frame
\* display_camera_frame is exported by cam_driver.h: one call of it, by a
\* thread that is no worker of a session, on a frame pointer and a size of
\* the caller's choice.

\* byte values the test frames are built from
Samples == {0, 16, 128, 235, 255}

\* the frame whose luma bytes are all y and whose chroma bytes are all u, v
FlatFrame(y, u, v) ==
    [i \in 1..frame_size |->
        IF i <= u_plane THEN y ELSE IF i <= v_plane THEN u ELSE v]

\* the frames a caller passes: flat ones of every sample colour, and frames
\* of the test pattern, whose bytes differ from position to position
TestFrames ==
    {FlatFrame(y, u, v) : y \in Samples, u \in Samples, v \in Samples}
        \cup {SourceFrame(k) : k \in 1..MaxFrames}

\* the sizes a caller passes with a frame
TestSizes == {0, frame_size - 1, frame_size}

\* the caller's thread, about to execute the first statement of the call
Caller(fb, size) ==
    [NoWorker EXCEPT !.pc = "d_malloc0", !.kind = "call", !.fb = fb,
                     !.arg = 0, !.size = size, !.rpc = "done"]

InitFrame ==
    /\ display_active = 0
    /\ display_thread = 0
    /\ pipe_created = 0
    /\ pipe_path = "absent"
    /\ heap = <<ZeroBlock, ZeroBlock>>
    /\ oled_buffers = [s \in {0, 1} |-> s + 1]
    /\ current_buffer \in {0, 1}
    /\ mpc = "idle"
    /\ marg = [kind |-> "none", flen |-> 0]
    /\ ret = 0
    /\ \E fb \in {<<>>} \cup {<<f>> : f \in TestFrames}, size \in TestSizes :
          wk = [w \in Workers |-> IF w = 1 THEN Caller(fb, size) ELSE NoWorker]
    /\ nworkers = 0
    /\ joins = [w \in Workers |-> 0]
    /\ ncalls = 1
    /\ presented = <<>>
    /\ nfaults = 0
    /\ ub = FALSE
    /\ btn = NoCall
    /\ app = NoApp
    /\ bat = NoBattery

NextFrame ==
    \E w \in Workers :
        \/ DcfMalloc0(w)
        \/ DcfMalloc1(w)
        \/ DcfCheck(w)
        \/ DcfPaint(w)
        \/ DcfDisplayBegin(w)
        \/ DcfDisplayEnd(w)
        \/ DcfFlip(w)

SpecFrame == InitFrame /\ [][NextFrame]_vars

\* ------------------------------------- OLED_1in5_rgb_test.c: the button
\* everything the driver owns, which the button functions leave alone
driver_state ==
    <<display_active, display_thread, pipe_created, pipe_path, oled_buffers,
      current_buffer, heap, mpc, marg, ret, wk, nworkers, joins, ncalls,
      presented, nfaults>>

\* what lgGpioRead(handle, pin) returns for the button line
Levels == {0, 1}

\* what an int that was never assigned can be found to hold
Indeterminate == {0, 1}

\* what is left as the value of a call of Button_Lock that ends without a
\* return statement: the status of its last call, lgGpioFree
FreeStatus == {0, -1}

\* ---- int debounceButton(int handle, int pin)
DebounceCall == [NoCall EXCEPT !.fn = "debounce", !.pc = "b_first"]

\* int lastState = lgGpioRead(handle, pin); int count = 0;
DebounceFirst ==
    /\ btn.pc = "b_first"
    /\ \E v \in Levels :
          btn' = [btn EXCEPT !.lastState = v, !.first = v, !.count = 0,
                                    !.i = 0, !.pc = "b_loop"]
    /\ UNCHANGED <<driver_state, ub, app, bat>>

\* usleep(1000); if (lgGpioRead(handle, pin) == lastState) count++;
\* else { count = 0; lastState = lgGpioRead(handle, pin); }   (up to the
\* second read)
DebounceSample ==
    /\ btn.pc = "b_loop"
    /\ btn.i < DebounceChecks
    /\ \E v \in Levels :
          btn' = IF v = btn.lastState
                 THEN [btn EXCEPT !.interval = Append(@, v),
                                         !.count = @ + 1, !.i = @ + 1]
                 ELSE [btn EXCEPT !.interval = Append(@, v),
                                         !.count = 0, !.pc = "b_reset"]
    /\ UNCHANGED <<driver_state, ub, app, bat>>

\* a loop that is left at the first sample that disagrees
AfterDisagree_exit(i) == DebounceChecks

\* the loop index after an iteration whose sample disagreed: the i++ of the
\* for statement, as after any other iteration
AfterDisagree(i) == i + 1

\* lastState = lgGpioRead(handle, pin);  and the i++ of the loop
DebounceReset ==
    /\ btn.pc = "b_reset"
    /\ \E v \in Levels :
          btn' = [btn EXCEPT !.lastState = v, !.i = AfterDisagree(@),
                                    !.pc = "b_loop"]
    /\ UNCHANGED <<driver_state, ub, app, bat>>

\* a result that reports the last level whatever the count
Stable_always(count) == TRUE

\* count >= 10
Stable(count) == count >= DebounceChecks

\* return (count >= 10) ? lastState : -1;
DebounceReturn ==
    /\ btn.pc = "b_loop"
    /\ ~(btn.i < DebounceChecks)
    /\ btn' = [btn EXCEPT !.result = IF Stable(btn.count) THEN btn.lastState
                                     ELSE -1,
                          !.pc = "done"]
    /\ UNCHANGED <<driver_state, ub, app, bat>>

\* ---- int Button_Lock(int handle, int pin)
\* the results lgGpioRead gives a call, in order: as many as the call makes
ReadSeqs == UNION {[1..n -> Levels] : n \in 1..MaxReads}

\* a hold loop that gives up after one poll
LockLoop_once(temp, reads, check2) ==
    IF temp = 1 /\ reads # <<>>
    THEN [left |-> TRUE, check2 |-> 1, rest |-> Tail(reads)]
    ELSE [left |-> TRUE, check2 |-> check2, rest |-> reads]

RECURSIVE LockLoop(_, _, _)
\* while (temp == 1) { state = LOCKED; check2 = 1; temp = lgGpioRead(..); }
\* on the reads still to come: check2 and the reads left over when the loop
\* is left; the loop is not left while the reads that came are all 1
LockLoop(temp, reads, check2) ==
    IF temp = 1
    THEN IF reads = <<>>
         THEN [left |-> FALSE, check2 |-> check2, rest |-> reads]
         ELSE LockLoop(Head(reads), Tail(reads), 1)
    ELSE [left |-> TRUE, check2 |-> check2, rest |-> reads]

\* a Button_Lock whose temp starts at 0
Unassigned_zero(garbage) == 0

\* int temp;  what a read of temp finds before any assignment to it
Unassigned(garbage) == garbage

\* The call on the reads `reads`: whether it returns having made exactly
\* these reads, what it returns, and whether it read temp unassigned.
\*   int num = 0; int check = 0; int temp; int check2 = 0;
\*   case IDLE: if (lgGpioRead(..) == 1) { state = LOCKED; check = 1; }
\*   case LOCKED: if (check == 1) temp = lgGpioRead(..);
\*   while (temp == 1) ...
\*   if (check2 == 1) { ...; num = 1; return num; }
\*   lgGpioFree(handle, pin);  and the end of the function
Button_Lock(reads, garbage, status) ==
    LET check == IF Head(reads) = 1 THEN 1 ELSE 0
        after == Tail(reads)
        reread == check = 1 /\ after # <<>>
        temp == IF check = 1 THEN (IF reread THEN Head(after) ELSE 1)
                ELSE Unassigned(garbage)
        loop == LockLoop(temp, IF reread THEN Tail(after) ELSE after, 0)
    IN [returned |-> (check = 1 => reread) /\ loop.left /\ loop.rest = <<>>,
        result |-> IF loop.check2 = 1 THEN 1 ELSE status,
        reads |-> reads,
        uninit |-> check = 0]

\* the calls that return, and what they return
LockResults ==
    {r \in {Button_Lock(reads, g, status) :
                reads \in ReadSeqs, g \in Indeterminate, status \in FreeStatus} :
        r.returned}

\* the reads showed the line high and, later, low
HighThenLow(reads) ==
    \E i, j \in 1..Len(reads) : i < j /\ reads[i] = 1 /\ reads[j] = 0

\* the number of reads that showed the line high
HighReads(reads) == Cardinality({i \in 1..Len(reads) : reads[i] = 1})

LockCall == [NoCall EXCEPT !.fn = "lock", !.pc = "l_call"]

\* the whole call
LockApply ==
    /\ btn.pc = "l_call"
    /\ \E r \in LockResults :
          btn' = [btn EXCEPT !.pc = "done", !.result = r.result,
                             !.reads = r.reads, !.uninit = r.uninit]
    /\ UNCHANGED <<driver_state, ub, app, bat>>

\* one call of either function, on a line that does anything
InitButton ==
    /\ display_active = 0
    /\ display_thread = 0
    /\ pipe_created = 0
    /\ pipe_path = "absent"
    /\ heap = <<ZeroBlock, ZeroBlock>>
    /\ oled_buffers = [s \in {0, 1} |-> s + 1]
    /\ current_buffer = 0
    /\ mpc = "idle"
    /\ marg = [kind |-> "none", flen |-> 0]
    /\ ret = 0
    /\ wk = [w \in Workers |-> NoWorker]
    /\ nworkers = 0
    /\ joins = [w \in Workers |-> 0]
    /\ ncalls = 0
    /\ presented = <<>>
    /\ nfaults = 0
    /\ ub = FALSE
    /\ btn \in {DebounceCall, LockCall}
    /\ app = NoApp
    /\ bat = NoBattery

NextButton ==
    \/ DebounceFirst
    \/ DebounceSample
    \/ DebounceReset
    \/ DebounceReturn
    \/ LockApply

SpecButton == InitButton /\ [][NextButton]_vars

\* --------------------------- OLED_1in5_rgb_test.c: the main loop and modes
\* the driver's variables a step of the main loop outside the driver leaves
\* alone (the FIFO it may create is not among them)
session_state ==
    <<display_active, display_thread, pipe_created, oled_buffers,
      current_buffer, heap, mpc, marg, ret, wk, nworkers, joins, ncalls,
      presented, ub>>

\* no call of Button_Lock has switched the mode since the last switch (state)
NoLock == [returned |-> FALSE, result |-> 0, reads |-> <<>>, uninit |-> FALSE]

\* int state = 1; (Navigation), volatile int run = 1; the main loop is about
\* to evaluate switch (state). polled and rendered tell whether the
\* Navigation loop has called Button_Lock, and has drawn, since it was entered.
AppStart ==
    [pc |-> "switch", state |-> 1, run |-> 1, timedout |-> FALSE,
     lock |-> NoLock, polled |-> FALSE, rendered |-> FALSE]

Goto(pc) == app' = [app EXCEPT !.pc = pc]

\* switch (state): case 1 is Navigation, case 0 is Camera
AppSwitch ==
    /\ app.pc = "switch"
    /\ app' = [app EXCEPT !.pc = IF app.state = 1 THEN "nav_while"
                                ELSE "cam_stat",
                          !.timedout = FALSE, !.lock = NoLock,
                          !.polled = FALSE, !.rendered = FALSE]
    /\ UNCHANGED <<session_state, pipe_path, nfaults, btn, bat>>

\* while (run) { num2 = Button_Lock(h, BUTTON_PIN);
\* if (num2 == 1) { state = 0; run = 0; break; }
NavPoll ==
    /\ app.pc = "nav_while"
    /\ IF app.run # 0
       THEN \E r \in LockResults :
               app' = IF r.result = 1
                      THEN [app EXCEPT !.state = 0, !.run = 0, !.lock = r,
                                       !.polled = TRUE, !.pc = "nav_leave"]
                      ELSE [app EXCEPT !.polled = TRUE, !.pc = "nav_render"]
       ELSE Goto("nav_leave")
    /\ UNCHANGED <<session_state, pipe_path, nfaults, btn, bat>>

\* parse_csv, the Paint_Draw* calls, OLED_1in5_rgb_Display(BlackImage);
\* Paint_Clear(BLACK);  } : the main thread writes the display
NavRender ==
    /\ app.pc = "nav_render"
    /\ app' = [app EXCEPT !.rendered = TRUE, !.pc = "nav_while"]
    /\ UNCHANGED <<session_state, pipe_path, nfaults, btn, bat>>

\* lgGpioFree(h, BUTTON_PIN); state = 0; break;   (num2 is out of scope)
NavLeave ==
    /\ app.pc = "nav_leave"
    /\ app' = [app EXCEPT !.state = 0, !.pc = "switch", !.lock = NoLock,
                          !.polled = FALSE, !.rendered = FALSE]
    /\ UNCHANGED <<session_state, pipe_path, nfaults, btn, bat>>

\* case 0: if (stat(PIPE_PATH, &st) != 0) { if (mkfifo(PIPE_PATH, 0666) != 0)
\* { ...; break; } }
CamStat ==
    /\ app.pc = "cam_stat"
    /\ IF pipe_path = "absent"
       THEN \E made \in BOOLEAN :
               /\ Succeeds(made)
               /\ IF made
                  THEN /\ pipe_path' = "fifo"
                       /\ Goto("cam_start")
                  ELSE /\ UNCHANGED pipe_path
                       /\ Goto("switch")
       ELSE /\ Goto("cam_start")
            /\ UNCHANGED <<pipe_path, nfaults>>
    /\ UNCHANGED <<session_state, btn, bat>>

\* if (!is_display_active())
CamStartCheck ==
    /\ app.pc = "cam_start"
    /\ Goto(IF is_display_active = 0 THEN "cam_start_call" ELSE "cam_camera")
    /\ UNCHANGED <<session_state, pipe_path, nfaults, btn, bat>>

\* start_realtime_display() is entered
CamStartCall ==
    /\ app.pc = "cam_start_call"
    /\ StartRealtimeCheck
    /\ Goto("cam_started")
    /\ UNCHANGED <<btn, bat>>

\* if (start_realtime_display() != 0) { ...; break; }
CamStartReturn ==
    /\ app.pc = "cam_started"
    /\ mpc = "idle"
    /\ Goto(IF ret # 0 THEN "switch" ELSE "cam_camera")
    /\ UNCHANGED <<session_state, pipe_path, nfaults, btn, bat>>

\* the two system() calls that restart libcamera-vid with its output sent
\* to PIPE_PATH, sleep(1); time_t start_time = time(NULL);
CamCamera ==
    /\ app.pc = "cam_camera"
    /\ Goto("cam_poll")
    /\ UNCHANGED <<session_state, pipe_path, nfaults, btn, bat>>

\* a dwell that is never found to have elapsed
DwellOver_never(elapsed) == FALSE

\* (time(NULL) - start_time) < 300, negated
DwellOver(elapsed) == ~(elapsed < MaxDwell)

\* a return to Navigation that leaves run as it was
BackToNavigation_norun(a, r) ==
    [a EXCEPT !.state = 1, !.lock = r, !.pc = "cam_stop"]

\* if (num1 == 1) { state = 1; run = 1; break; }
BackToNavigation(a, r) ==
    [a EXCEPT !.state = 1, !.run = 1, !.lock = r, !.pc = "cam_stop"]

\* while (state == 0 && (time(NULL) - start_time) < 300)
\* { num1 = Button_Lock(h, BUTTON_PIN);
\*   if (num1 == 1) { state = 1; run = 1; break; } usleep(100000); }
CamPoll ==
    /\ app.pc = "cam_poll"
    /\ \E elapsed \in {MaxDwell - 1, MaxDwell} :
          IF app.state = 0 /\ ~DwellOver(elapsed)
          THEN \E r \in LockResults :
                  app' = IF r.result = 1
                         THEN BackToNavigation(app, r)
                         ELSE app
          ELSE app' = [app EXCEPT !.pc = "cam_stop",
                                  !.timedout = (app.state = 0)]
    /\ UNCHANGED <<session_state, pipe_path, nfaults, btn, bat>>

\* system("pkill -f libcamera-vid"); if (is_display_active())
\* (num1 is out of scope)
CamStopCheck ==
    /\ app.pc = "cam_stop"
    /\ app' = [app EXCEPT !.lock = NoLock,
                          !.pc = IF is_display_active # 0 THEN "cam_stop_call"
                                 ELSE "switch"]
    /\ UNCHANGED <<session_state, pipe_path, nfaults, btn, bat>>

\* stop_display() is entered
CamStopCall ==
    /\ app.pc = "cam_stop_call"
    /\ StopCheck
    /\ Goto("cam_stopping")
    /\ UNCHANGED <<btn, bat>>

\* stop_display() has returned; lgGpioFree(h, BUTTON_PIN); and the end of
\* the switch
CamStopReturn ==
    /\ app.pc = "cam_stopping"
    /\ mpc = "idle"
    /\ Goto("switch")
    /\ UNCHANGED <<session_state, pipe_path, nfaults, btn, bat>>

\* the program after its set-up: Navigation mode, no session, and no call of
\* oled_init, so no display buffer
InitApp ==
    /\ display_active = 0
    /\ display_thread = 0
    /\ pipe_created = 0
    /\ pipe_path = "absent"
    /\ heap = <<>>
    /\ oled_buffers = [s \in {0, 1} |-> NULL]
    /\ current_buffer = 0
    /\ mpc = "idle"
    /\ marg = [kind |-> "none", flen |-> 0]
    /\ ret = 0
    /\ wk = [w \in Workers |-> NoWorker]
    /\ nworkers = 0
    /\ joins = [w \in Workers |-> 0]
    /\ ncalls = 0
    /\ presented = <<>>
    /\ nfaults = 0
    /\ ub = FALSE
    /\ btn = NoCall
    /\ app = AppStart
    /\ bat = NoBattery

NextApp ==
    \/ AppSwitch
    \/ NavPoll
    \/ NavRender
    \/ NavLeave
    \/ CamStat
    \/ CamStartCheck
    \/ CamStartCall
    \/ StartSet /\ UNCHANGED app_vars
    \/ StartCreate /\ UNCHANGED app_vars
    \/ CamStartReturn
    \/ CamCamera
    \/ CamPoll
    \/ CamStopCheck
    \/ CamStopCall
    \/ StopClear /\ UNCHANGED app_vars
    \/ StopJoin /\ UNCHANGED app_vars
    \/ CamStopReturn
    \/ \E w \in Workers :
          \/ PipeOpen(w) \/ PipeAlloc(w) \/ PipeFirstTest(w)
          \/ PipeFirstRead(w) \/ PipeFirstCheck(w) \/ PipeLoopTest(w)
          \/ PipeNext(w) \/ PipeLoopReadTest(w) \/ PipeLoopRead(w)
          \/ PipeCheck(w)
          \/ DcfMalloc0(w) \/ DcfMalloc1(w) \/ DcfCheck(w) \/ DcfPaint(w)
          \/ DcfDisplayBegin(w) \/ DcfDisplayEnd(w) \/ DcfFlip(w)

SpecApp == InitApp /\ [][NextApp]_vars

\* ------------------------------------------- what PIPE_PATH may name
\* nothing, a FIFO, or a file of another kind
PathKinds == {"absent", "fifo", "regular"}

\* the driver, started with PIPE_PATH naming any of these
InitPath ==
    /\ display_active = 0
    /\ display_thread = 0
    /\ pipe_created = 0
    /\ pipe_path \in PathKinds
    /\ heap = <<ZeroBlock, ZeroBlock>>
    /\ oled_buffers = [s \in {0, 1} |-> s + 1]
    /\ current_buffer = 0
    /\ mpc = "idle"
    /\ marg = [kind |-> "none", flen |-> 0]
    /\ ret = 0
    /\ wk = [w \in Workers |-> NoWorker]
    /\ nworkers = 0
    /\ joins = [w \in Workers |-> 0]
    /\ ncalls = 0
    /\ presented = <<>>
    /\ nfaults = 0
    /\ ub = FALSE
    /\ btn = NoCall
    /\ app = NoApp
    /\ bat = NoBattery

SpecPath == InitPath /\ [][NextLive]_vars

\* ---------------------- OLED_1in5_rgb_test.c: latest_battery_percentage
\* battery percentages the UART line can carry
Percentages == {0, 50, 100}

\* float latest_battery_percentage = -1.0; battery_mutex is unlocked; the
\* UART thread waits for a line, the Bluetooth thread for a client, and the
\* main thread is at the top of its Navigation pass
BatteryStart ==
    [pc |-> "run", mutex |-> "none", latest |-> -1, pending |-> -1,
     uart |-> "u_read", bt |-> "b_accept", nav |-> "n_parse",
     sent |-> -1, shown |-> -1, printed |-> -1]

\* pthread_mutex_lock(&battery_mutex) by thread t: taken when it is free
Lock(t) ==
    /\ bat.mutex = "none"
    /\ bat' = [bat EXCEPT !.mutex = t,
                          !.uart = IF t = "uart" THEN "u_write" ELSE @,
                          !.bt = IF t = "bt" THEN "b_read" ELSE @]

\* read_battery_voltage: fgets, sscanf and calculate_battery_percentage
UartLine ==
    /\ bat.uart = "u_read"
    /\ \E p \in Percentages :
          bat' = [bat EXCEPT !.pending = p, !.uart = "u_lock"]
    /\ UNCHANGED <<driver_state, ub, btn, app>>

\* pthread_mutex_lock(&battery_mutex);
UartLock ==
    /\ bat.uart = "u_lock"
    /\ Lock("uart")
    /\ UNCHANGED <<driver_state, ub, btn, app>>

\* latest_battery_percentage = percentage;
UartWrite ==
    /\ bat.uart = "u_write"
    /\ bat' = [bat EXCEPT !.latest = bat.pending, !.uart = "u_unlock"]
    /\ UNCHANGED <<driver_state, ub, btn, app>>

\* pthread_mutex_unlock(&battery_mutex);
UartUnlock ==
    /\ bat.uart = "u_unlock"
    /\ bat' = [bat EXCEPT !.mutex = "none", !.uart = "u_print"]
    /\ UNCHANGED <<driver_state, ub, btn, app>>

\* printf("Battery Percentage: %.2f%%\n", latest_battery_percentage);
UartPrint ==
    /\ bat.uart = "u_print"
    /\ bat' = [bat EXCEPT !.printed = bat.latest, !.uart = "u_read"]
    /\ UNCHANGED <<driver_state, ub, btn, app>>

\* bluetooth_receiver: a client is accepted and battery.csv is opened
BtAccept ==
    /\ bat.bt = "b_accept"
    /\ bat' = [bat EXCEPT !.bt = "b_lock"]
    /\ UNCHANGED <<driver_state, ub, btn, app>>

\* pthread_mutex_lock(&battery_mutex);
BtLock ==
    /\ bat.bt = "b_lock"
    /\ Lock("bt")
    /\ UNCHANGED <<driver_state, ub, btn, app>>

\* fprintf(battery_file, "...%.2f\n", latest_battery_percentage);
BtRead ==
    /\ bat.bt = "b_read"
    /\ bat' = [bat EXCEPT !.sent = bat.latest, !.bt = "b_unlock"]
    /\ UNCHANGED <<driver_state, ub, btn, app>>

\* pthread_mutex_unlock(&battery_mutex);
BtUnlock ==
    /\ bat.bt = "b_unlock"
    /\ bat' = [bat EXCEPT !.mutex = "none", !.bt = "b_accept"]
    /\ UNCHANGED <<driver_state, ub, btn, app>>

\* parse_csv("received.csv", &data); and the drawing before the battery
NavParse ==
    /\ bat.nav = "n_parse"
    /\ bat' = [bat EXCEPT !.nav = "n_draw"]
    /\ UNCHANGED <<driver_state, ub, btn, app>>

\* Paint_DrawNum(0, 50, latest_battery_percentage, ...);
NavDraw ==
    /\ bat.nav = "n_draw"
    /\ bat' = [bat EXCEPT !.shown = bat.latest, !.nav = "n_display"]
    /\ UNCHANGED <<driver_state, ub, btn, app>>

\* OLED_1in5_rgb_Display(BlackImage); Paint_Clear(BLACK); and the next pass
NavDisplay ==
    /\ bat.nav = "n_display"
    /\ bat' = [bat EXCEPT !.nav = "n_parse"]
    /\ UNCHANGED <<driver_state, ub, btn, app>>

InitBattery ==
    /\ display_active = 0
    /\ display_thread = 0
    /\ pipe_created = 0
    /\ pipe_path = "absent"
    /\ heap = <<>>
    /\ oled_buffers = [s \in {0, 1} |-> NULL]
    /\ current_buffer = 0
    /\ mpc = "idle"
    /\ marg = [kind |-> "none", flen |-> 0]
    /\ ret = 0
    /\ wk = [w \in Workers |-> NoWorker]
    /\ nworkers = 0
    /\ joins = [w \in Workers |-> 0]
    /\ ncalls = 0
    /\ presented = <<>>
    /\ nfaults = 0
    /\ ub = FALSE
    /\ btn = NoCall
    /\ app = NoApp
    /\ bat = BatteryStart

NextBattery ==
    \/ UartLine
    \/ UartLock
    \/ UartWrite
    \/ UartUnlock
    \/ UartPrint
    \/ BtAccept
    \/ BtLock
    \/ BtRead
    \/ BtUnlock
    \/ NavParse
    \/ NavDraw
    \/ NavDisplay

SpecBattery == InitBattery /\ [][NextBattery]_vars


\* ================================================================= capture
\* capture.c: main_two with use_realtime_display = 1, and the SIGINT handler
\* it installs. The handler runs on whichever thread the signal is delivered
\* to: the main thread (0) or a worker, which is suspended while it runs.

\* no handler is running
NoSignal == [pc |-> "none", on |-> 0]

\* volatile sig_atomic_t keep_running = 1; static volatile int pipe_created
\* = 0; main_two is about to evaluate while (keep_running). join_calls
\* counts the calls pthread_join(display_thread) made on each thread.
CaptureStart ==
    [pc |-> "mt_loop", after |-> "none", keep_running |-> 1,
     pipe_created |-> 0, sig |-> NoSignal, nsig |-> 0, join_calls |-> [w \in Workers |-> 0]]

\* the handler is running on thread t
HandlerOn(t) == app.sig.pc # "none" /\ app.sig.on = t

\* the main thread is not suspended by a handler
MainFree == ~HandlerOn(0)

\* while (keep_running)                                  (main_two)
MtLoop ==
    /\ MainFree /\ app.pc = "mt_loop"
    /\ Goto(IF app.keep_running # 0 THEN "cap_fifo" ELSE "mt_final")
    /\ UNCHANGED <<session_state, pipe_path, nfaults, btn, bat>>

\* capture_video: if (stat(PIPE_PATH, &st) != 0) { if (mkfifo(...) != 0)
\* return -1; pipe_created = 1; } else if (!S_ISFIFO(st.st_mode)) return -1;
\* a result other than 0 makes main_two break out of its loop
CapFifo ==
    /\ MainFree /\ app.pc = "cap_fifo"
    /\ IF pipe_path = "absent"
       THEN \E made \in BOOLEAN :
               /\ Succeeds(made)
               /\ IF made
                  THEN /\ pipe_path' = "fifo"
                       /\ app' = [app EXCEPT !.pipe_created = 1,
                                             !.pc = "cap_start"]
                  ELSE /\ UNCHANGED pipe_path
                       /\ Goto("mt_final")
       ELSE /\ Goto(IF pipe_path = "fifo" THEN "cap_start" ELSE "mt_final")
            /\ UNCHANGED <<pipe_path, nfaults>>
    /\ UNCHANGED <<session_state, btn, bat>>

\* start_realtime_display() is entered
CapStartCall ==
    /\ MainFree /\ app.pc = "cap_start"
    /\ StartRealtimeCheck
    /\ Goto("cap_started")
    /\ UNCHANGED <<btn, bat>>

\* if (start_realtime_display() != 0) { ...; return -1; }
CapStartReturn ==
    /\ MainFree /\ app.pc = "cap_started"
    /\ mpc = "idle"
    /\ Goto(IF ret # 0 THEN "mt_final" ELSE "cap_command")
    /\ UNCHANGED <<session_state, pipe_path, nfaults, btn, bat>>

\* int result = system(command); if (result != 0) { ...; return -1; }
CapCommand ==
    /\ MainFree /\ app.pc = "cap_command"
    /\ \E ok \in BOOLEAN :
          /\ Succeeds(ok)
          /\ Goto(IF ok THEN "cap_active" ELSE "mt_final")
    /\ UNCHANGED <<session_state, pipe_path, btn, bat>>

\* the main thread goes on to call stop_display(), and to `next` after it
CallStop(next) == app' = [app EXCEPT !.pc = "stop_call", !.after = next]

\* if (realtime_display && is_display_active()) ... return 0;
\*                                                    (capture_video, 290)
CapActive ==
    /\ MainFree /\ app.pc = "cap_active"
    /\ Goto(IF is_display_active # 0 THEN "cap_wait" ELSE "mt_after")
    /\ UNCHANGED <<session_state, pipe_path, nfaults, btn, bat>>

\* while (keep_running) { sleep(1); }  stop_display(); return 0;   (294-301)
CapWait ==
    /\ MainFree /\ app.pc = "cap_wait"
    /\ app.keep_running = 0
    /\ CallStop("mt_after")
    /\ UNCHANGED <<session_state, pipe_path, nfaults, btn, bat>>

\* if (use_realtime_display && is_display_active()) stop_display();
\* sleep(5);                                              (main_two, 418)
MtAfter ==
    /\ MainFree /\ app.pc = "mt_after"
    /\ IF is_display_active # 0 THEN CallStop("mt_loop") ELSE Goto("mt_loop")
    /\ UNCHANGED <<session_state, pipe_path, nfaults, btn, bat>>

\* if (is_display_active()) stop_display();               (main_two, 445)
MtFinal ==
    /\ MainFree /\ app.pc = "mt_final"
    /\ IF is_display_active # 0 THEN CallStop("mt_unlink")
       ELSE Goto("mt_unlink")
    /\ UNCHANGED <<session_state, pipe_path, nfaults, btn, bat>>

\* stop_display() is entered by the main thread
MainStopCall ==
    /\ MainFree /\ app.pc = "stop_call"
    /\ StopCheck
    /\ Goto("stop_wait")
    /\ UNCHANGED <<btn, bat>>

\* stop_display() has returned to the main thread
MainStopReturn ==
    /\ MainFree /\ app.pc = "stop_wait"
    /\ mpc = "idle"
    /\ Goto(app.after)
    /\ UNCHANGED <<session_state, pipe_path, nfaults, btn, bat>>

\* if (pipe_created) { unlink(PIPE_PATH); pipe_created = 0; } return 0;
MtExit ==
    /\ MainFree /\ app.pc = "mt_unlink"
    /\ IF app.pipe_created # 0
       THEN /\ pipe_path' = "absent"
            /\ app' = [app EXCEPT !.pipe_created = 0, !.pc = "mt_exit"]
       ELSE /\ Goto("mt_exit")
            /\ UNCHANGED pipe_path
    /\ UNCHANGED <<session_state, nfaults, btn, bat>>

\* pthread_join(display_thread, NULL) of the main thread's stop_display
MainJoin ==
    /\ MainFree
    /\ StopJoin
    /\ app' = IF display_thread \in Workers
              THEN [app EXCEPT !.join_calls[display_thread] = @ + 1]
              ELSE app
    /\ UNCHANGED <<btn, bat>>

\* ---- void signal_handler(int signum)
\* SIGINT is delivered to a thread that does not block it: the main thread or
\* a worker that has not returned. It is blocked while its handler runs.
Sigint ==
    /\ app.pc # "mt_exit"
    /\ app.sig.pc = "none"
    /\ app.nsig < MaxSignals
    /\ \E t \in {0} \cup {w \in Workers : Alive(w)} :
          app' = [app EXCEPT !.sig = [pc |-> "h_flag", on |-> t],
                             !.nsig = @ + 1]
    /\ UNCHANGED <<session_state, pipe_path, nfaults, btn, bat>>

\* keep_running = 0;
HandlerFlag ==
    /\ app.sig.pc = "h_flag"
    /\ app' = [app EXCEPT !.keep_running = 0, !.sig.pc = "h_active"]
    /\ UNCHANGED <<session_state, pipe_path, nfaults, btn, bat>>

\* if (is_display_active())
HandlerActive ==
    /\ app.sig.pc = "h_active"
    /\ app' = [app EXCEPT !.sig = IF is_display_active # 0
                                  THEN [@ EXCEPT !.pc = "h_check"]
                                  ELSE NoSignal]
    /\ UNCHANGED <<session_state, pipe_path, nfaults, btn, bat>>

\* stop_display() in the handler: if (display_active)
HandlerCheck ==
    /\ app.sig.pc = "h_check"
    /\ app' = [app EXCEPT !.sig = IF display_active # 0
                                  THEN [@ EXCEPT !.pc = "h_clear"]
                                  ELSE NoSignal]
    /\ UNCHANGED <<session_state, pipe_path, nfaults, btn, bat>>

\* display_active = 0;
HandlerClear ==
    /\ app.sig.pc = "h_clear"
    /\ display_active' = 0
    /\ app' = [app EXCEPT !.sig.pc = "h_join"]
    /\ UNCHANGED <<display_thread, pipe_created, oled_buffers, current_buffer,
                   heap, mpc, marg, ret, wk, nworkers, joins, ncalls,
                   presented, ub, pipe_path, nfaults, btn, bat>>

\* pthread_join(display_thread, NULL); and the return of the handler. On the
\* worker itself the call fails with EDEADLK (or never returns: the handler
\* then stays here); on a thread joined before, or on no thread, it is
\* undefined.
HandlerJoin ==
    /\ app.sig.pc = "h_join"
    /\ IF display_thread \notin Workers
       THEN /\ ub' = TRUE
            /\ app' = [app EXCEPT !.sig = NoSignal]
            /\ UNCHANGED joins
       ELSE /\ app' = [app EXCEPT !.sig = NoSignal,
                                  !.join_calls[display_thread] = @ + 1]
            /\ IF app.sig.on = display_thread
               THEN UNCHANGED <<joins, ub>>
               ELSE IF joins[display_thread] = 0
               THEN /\ ThreadEnded(display_thread)
                    /\ joins' = [joins EXCEPT ![display_thread] = 1]
                    /\ UNCHANGED ub
               ELSE /\ ub' = TRUE
                    /\ UNCHANGED joins
    /\ UNCHANGED <<display_active, display_thread, pipe_created, oled_buffers,
                   current_buffer, heap, mpc, marg, ret, wk, nworkers, ncalls,
                   presented, pipe_path, nfaults, btn, bat>>

\* main_two after sigaction, oled_init and the set-up of its directory
InitSignal ==
    /\ display_active = 0
    /\ display_thread = 0
    /\ pipe_created = 0
    /\ pipe_path \in PathKinds
    /\ heap = <<ZeroBlock, ZeroBlock>>
    /\ oled_buffers = [s \in {0, 1} |-> s + 1]
    /\ current_buffer = 0
    /\ mpc = "idle"
    /\ marg = [kind |-> "none", flen |-> 0]
    /\ ret = 0
    /\ wk = [w \in Workers |-> NoWorker]
    /\ nworkers = 0
    /\ joins = [w \in Workers |-> 0]
    /\ ncalls = 0
    /\ presented = <<>>
    /\ nfaults = 0
    /\ ub = FALSE
    /\ btn = NoCall
    /\ app = CaptureStart
    /\ bat = NoBattery

NextSignal ==
    \/ MtLoop
    \/ CapFifo
    \/ CapStartCall
    \/ MainFree /\ StartSet /\ UNCHANGED app_vars
    \/ MainFree /\ StartCreate /\ UNCHANGED app_vars
    \/ CapStartReturn
    \/ CapCommand
    \/ CapActive
    \/ CapWait
    \/ MtAfter
    \/ MtFinal
    \/ MainStopCall
    \/ MainStopReturn
    \/ MtExit
    \/ MainFree /\ StopClear /\ UNCHANGED app_vars
    \/ MainJoin
    \/ Sigint
    \/ HandlerFlag
    \/ HandlerActive
    \/ HandlerCheck
    \/ HandlerClear
    \/ HandlerJoin
    \/ \E w \in Workers :
          \/ ~HandlerOn(w) /\ PipeOpen(w)
          \/ ~HandlerOn(w) /\ PipeAlloc(w)
          \/ ~HandlerOn(w) /\ PipeFirstTest(w)
          \/ ~HandlerOn(w) /\ PipeFirstRead(w)
          \/ ~HandlerOn(w) /\ PipeFirstCheck(w)
          \/ ~HandlerOn(w) /\ PipeLoopTest(w)
          \/ ~HandlerOn(w) /\ PipeNext(w)
          \/ ~HandlerOn(w) /\ PipeLoopReadTest(w)
          \/ ~HandlerOn(w) /\ PipeLoopRead(w)
          \/ ~HandlerOn(w) /\ PipeCheck(w)
          \/ ~HandlerOn(w) /\ DcfMalloc0(w)
          \/ ~HandlerOn(w) /\ DcfMalloc1(w)
          \/ ~HandlerOn(w) /\ DcfCheck(w)
          \/ ~HandlerOn(w) /\ DcfPaint(w)
          \/ ~HandlerOn(w) /\ DcfDisplayBegin(w)
          \/ ~HandlerOn(w) /\ DcfDisplayEnd(w)
          \/ ~HandlerOn(w) /\ DcfFlip(w)

SpecSignal == InitSignal /\ [][NextSignal]_vars

\* ================================================================== claims
\* pcs of a worker inside display_camera_frame
DcfPcs == {"d_malloc0", "d_malloc1", "d_check", "d_paint", "d_display", "d_flip"}

\* the entries of the presentation log made by worker w, in order
PresentedBy(w) == SelectSeq(presented, LAMBDA e : e.w = w)

\* the full frames of a source, by number, and as a set
Frames == [k \in 1..MaxFrames |-> SourceFrame(k)]
PipeFrames == {Frames[k] : k \in 1..MaxFrames}

\* The whole conversion of frame f into a block as malloc returns it (for the
\* frames of a source the conversion is tabulated).
FramesPainted == [k \in 1..MaxFrames |-> PaintFrom(FreshBlock, Frames[k], 0)]
Painted(f) ==
    IF f \in PipeFrames
    THEN FramesPainted[CHOOSE k \in 1..MaxFrames : Frames[k] = f]
    ELSE PaintFrom(FreshBlock, f, 0)

\* C1: a start call made while display_active = 1 returns -1, creates no
\* thread and leaves display_active, display_thread and every worker as they
\* were.
C1_StartWhileActiveRefused ==
    [][((StartVideoCheck \/ StartRealtimeCheck) /\ display_active = 1)
        => /\ ret' = -1
           /\ mpc' = "idle"
           /\ nworkers' = nworkers
           /\ UNCHANGED <<display_active, display_thread, wk>>]_vars

\* a start call was refused while a worker is running: the last start call
\* returned -1 and the session is still active
C1_Witness ==
    /\ mpc = "idle"
    /\ ret = -1
    /\ display_active = 1
    /\ \E w \in Workers : wk[w].pc = "d_display"

\* C2: at most one worker thread that has not returned exists at any time,
\* so at most one can call, or be inside, display_camera_frame.
C2_AtMostOneDisplayWorker ==
    Cardinality({w \in Workers : Alive(w)}) <= 1

\* a worker ended by itself and was never joined, and the worker of the
\* next session is presenting a frame
C2_Witness ==
    \E w1, w2 \in Workers :
        /\ w1 # w2
        /\ wk[w1].pc = "exited"
        /\ wk[w1].fail # "none"
        /\ joins[w1] = 0
        /\ wk[w2].pc = "d_display"

\* C3: when stop_display returns from its join, display_active is 0 and
\* every thread created so far has been joined.
C3_StopJoinsEveryWorker ==
    [][StopJoin => /\ display_active' = 0
                   /\ \A w \in 1..nworkers : joins'[w] >= 1]_vars

\* C4: stop_display is idempotent. Called with display_active = 0 (never
\* started, or right after a stop) it changes nothing, so it joins nothing;
\* a stop_display that joined returns with display_active = 0; and while the
\* control thread is between calls no worker sets display_active back, so a
\* second stop_display in a row finds it 0.
C4_StopIdempotent ==
    [][/\ (StopCheck /\ display_active = 0) => UNCHANGED vars
       /\ StopJoin => (display_active' = 0 /\ ~ub')
       /\ (mpc = "idle" /\ mpc' = "idle" /\ display_active = 0)
             => display_active' = 0]_vars

\* stop_display has joined a worker and returned: a second call finds the
\* session inactive
C4_Witness ==
    /\ mpc = "idle"
    /\ display_active = 0
    /\ \E w \in Workers : joins[w] = 1

\* C5: once the pipe worker has ended on a failed read, first frame or
\* later, is_display_active() is 0 with no call of stop_display.
C5_ReadFailureEndsSession ==
    \A w \in Workers :
        (/\ wk[w].fail \in {"eof", "err"}
         /\ wk[w].pc = "exited"
         /\ display_thread = w
         /\ mpc = "idle")
        => is_display_active = 0

\* C6: the pipe worker gives display_camera_frame only complete frames of
\* the stream: what it converts and what it presents is never partial data.
C6_OnlyCompleteFrames ==
    /\ \A w \in Workers :
          (wk[w].kind = "pipe" /\ wk[w].pc \in DcfPcs)
          => DcfFrame(w) \in PipeFrames
    /\ \A w \in Workers :
          wk[w].kind = "pipe"
          => \A k \in 1..Len(PresentedBy(w)) :
                PresentedBy(w)[k].frame \in PipeFrames

\* the producer closed the pipe half way through a frame after a frame was
\* presented
C6_Witness ==
    /\ presented # <<>>
    /\ \E w \in Workers :
          /\ wk[w].pc = "p_check"
          /\ wk[w].fail = "eof"
          /\ wk[w].total_read = frame_size \div 2

\* C7: in a stream session the k-th frame presented is the k-th frame of the
\* stream.
C7_PresentedInArrivalOrder ==
    \A w \in Workers :
        wk[w].kind = "pipe"
        => \A k \in 1..Len(PresentedBy(w)) :
              PresentedBy(w)[k].frame = SourceFrame(k)

\* C8: for a file of N >= 1 full frames the k-th frame presented is frame
\* (k - 1) mod N of the file.
C8_FileLoopOrder ==
    \A w \in Workers :
        (wk[w].kind = "file" /\ wk[w].flen >= frame_size)
        => LET N == wk[w].flen \div frame_size
           IN \A k \in 1..Len(PresentedBy(w)) :
                 PresentedBy(w)[k].frame = SourceFrame(((k - 1) % N) + 1)

\* C9: every buffer handed to OLED_1in5_rgb_Display is the block the call
\* painted, with all of its bytes written from the call's frame: it holds
\* the whole conversion of that frame and no byte left as allocated.
C9_PresentedFullyPainted ==
    /\ \A i \in 1..Len(presented) :
          /\ presented[i].buf = Painted(presented[i].frame)
          /\ \A j \in 1..buffer_size : presented[i].buf[j] # UNINIT
    /\ \A w \in Workers :
          wk[w].pc = "d_display"
          => /\ DisplayArg(w) = oled_buffers[wk[w].slot]
             /\ heap[DisplayArg(w)] = Painted(DcfFrame(w))

\* a frame was presented and the next buffer is painted in part
C9_Witness ==
    /\ presented # <<>>
    /\ \E w \in Workers :
          /\ wk[w].pc = "d_paint"
          /\ wk[w].row = 1
          /\ \E j \in 1..buffer_size : heap[wk[w].cb1][j] = UNINIT

\* C10: current_buffer is 0 or 1 and has flipped once for every presented
\* frame, consecutive presented frames used different slots, and no slot is
\* written by one call while another call presents it.
C10_SlotsAlternate ==
    /\ current_buffer \in {0, 1}
    /\ current_buffer =
          (Len(presented) - Cardinality({w \in Workers : wk[w].pc = "d_flip"})) % 2
    /\ \A i \in 1..(Len(presented) - 1) :
          presented[i].slot # presented[i + 1].slot
    /\ \A w1, w2 \in Workers :
          (wk[w1].pc = "d_paint" /\ wk[w2].pc = "d_display")
          => wk[w1].slot # wk[w2].slot

\* two frames were presented, the second from the other slot, and the slot
\* index is back where it started
C10_Witness ==
    /\ Len(presented) = 2
    /\ presented[1].slot = 0
    /\ presented[2].slot = 1
    /\ current_buffer = 0

\* the display buffer blocks display_camera_frame has allocated so far (the
\* first two of the heap are those of init_display_buffers); no statement a
\* session executes frees one: free_display_buffers has no caller
SessionBlocks == 3..Len(heap)

\* no session is running: the control thread is between calls, the flag is
\* clear and every worker created has returned
SessionOver ==
    /\ mpc = "idle"
    /\ display_active = 0
    /\ nworkers >= 1
    /\ \A w \in Workers : ~Alive(w)

\* C11: the display buffers are allocated once per session, at most two of
\* them however many frames it presents: the blocks allocated so far are at
\* most two for each session started.
C11_AllocatedOncePerSession ==
    Cardinality(SessionBlocks) <= 2 * nworkers

\* C12: once a session has ended no display buffer allocated for it remains
\* allocated.
C12_BuffersReleasedAtEnd ==
    SessionOver => SessionBlocks = {}

\* C13: a failed allocation of a display buffer is fatal: after a call of
\* display_camera_frame that left a slot NULL the worker does not go on to
\* the next frame.
C13_AllocationFailureFatal ==
    [][\A w \in Workers :
          (PipeNext(w) \/ FilePace(w))
          => (oled_buffers[0] # NULL /\ oled_buffers[1] # NULL)]_vars

\* C14: a call of display_camera_frame with a NULL frame or a size below
\* W*H*3/2 converts nothing, presents nothing and leaves current_buffer: no
\* step of it writes a byte of a block, calls OLED_1in5_rgb_Display or
\* changes current_buffer, and it never reaches the conversion.
C14_InvalidFrameRejected ==
    [][\A w \in Workers :
          (/\ wk[w].pc \in DcfPcs
           /\ (wk[w].fb = <<>> \/ wk[w].size < (OLED_WIDTH * OLED_HEIGHT * 3) \div 2))
          => /\ current_buffer' = current_buffer
             /\ presented' = presented
             /\ \A b \in 1..Len(heap) : heap'[b] = heap[b]
             /\ wk'[w].pc \notin {"d_paint", "d_display", "d_flip"}]_vars

\* a call with a frame one byte short has passed both mallocs and returned
C14_Witness ==
    \E w \in Workers :
        /\ wk[w].pc = "done"
        /\ wk[w].fb # <<>>
        /\ wk[w].size = frame_size - 1
        /\ Len(heap) = 4
        /\ presented = <<>>

\* C15: for a frame of W*H*3/2 bytes and every pixel, the luma index and the
\* two chroma indices lie inside the frame, the position is the unwrapped
\* (row*W + col)*2 and both bytes written lie inside the display buffer; at
\* the real size of the display the last index and position fit as well.
C15_IndicesInBounds ==
    /\ \A w \in Workers :
          wk[w].pc = "d_paint"
          => \A row \in 0..(OLED_HEIGHT - 1), col \in 0..(OLED_WIDTH - 1) :
                /\ y_index(row, col) >= 0
                /\ y_index(row, col) < u_plane
                /\ uv_index(row, col) >= 0
                /\ u_plane + uv_index(row, col) < v_plane
                /\ v_plane + uv_index(row, col) < Len(DcfFrame(w))
                /\ v_plane + uv_index(row, col)
                      < (OLED_WIDTH * OLED_HEIGHT * 3) \div 2
                /\ PixelPos(row, col) = (row * OLED_WIDTH + col) * 2
                /\ PixelPos(row, col) + 1 < Len(heap[wk[w].cb1])
                /\ PixelPos(row, col) + 1 < OLED_WIDTH * OLED_HEIGHT * 2
    /\ LET W == DISPLAY_WIDTH
           H == DISPLAY_HEIGHT
           last_uv == ((H - 1) \div 2) * (W \div 2) + ((W - 1) \div 2)
           last_pos == ((H - 1) * W + (W - 1)) * 2
       IN /\ W * H + (W * H) \div 4 + last_uv < (W * H * 3) \div 2
          /\ last_pos + 1 < 65536
          /\ last_pos + 1 < ((W * 2) * H) % 65536

\* the conversion has written the last two bytes of the display buffer from
\* the last bytes of the three planes
C15_Witness ==
    \E w \in Workers :
        /\ wk[w].pc = "d_paint"
        /\ wk[w].row = OLED_HEIGHT
        /\ wk[w].px.pos + 1 = buffer_size - 1
        /\ v_plane + uv_index(wk[w].px.row, wk[w].px.col) = frame_size - 1

\* the pixel locals of the workers that are converting a frame
Pixels == {wk[w].px : w \in {v \in Workers : wk[v].px # <<>>}}

\* C16: yuv420_to_rgb, given bytes, returns r, g and b in 0..255, and they
\* are the function of (y, u, v) alone.
C16_ComponentsInRange ==
    \A p \in Pixels :
        (p.y_val \in 0..255 /\ p.u_val \in 0..255 /\ p.v_val \in 0..255)
        => /\ p.r \in 0..255
           /\ p.g \in 0..255
           /\ p.b \in 0..255
           /\ \A q \in Pixels :
                 (q.y_val = p.y_val /\ q.u_val = p.u_val /\ q.v_val = p.v_val)
                 => (q.r = p.r /\ q.g = p.g /\ q.b = p.b)
           /\ [r |-> p.r, g |-> p.g, b |-> p.b]
                 = yuv420_to_rgb(p.y_val, p.u_val, p.v_val)

\* a pixel whose three sums all leave 0..255 at the upper end was converted
C16_Witness ==
    \E p \in Pixels :
        /\ p.y_val = 255 /\ p.u_val = 255 /\ p.v_val = 255
        /\ p.r = 255 /\ p.b = 255

\* the reference transform: the shift rounds down, also below zero
RefShift8(x) == IF x >= 0 THEN x \div 256 ELSE -(((-x) + 255) \div 256)
RefClamp8(x) == IF x <= 0 THEN 0 ELSE IF x >= 255 THEN 255 ELSE x
Reference(y, u, v) ==
    LET c == y - 16
        d == u - 128
        e == v - 128
    IN <<RefClamp8(RefShift8(298 * c + 409 * e + 128)),
         RefClamp8(RefShift8(298 * c - 100 * d - 208 * e + 128)),
         RefClamp8(RefShift8(298 * c + 516 * d + 128))>>

\* C17: yuv420_to_rgb is the reference fixed-point transform; (235,128,128)
\* gives white and (16,128,128) gives black.
C17_ReferenceTransform ==
    \A p \in Pixels :
        /\ <<p.r, p.g, p.b>> = Reference(p.y_val, p.u_val, p.v_val)
        /\ (p.y_val = 235 /\ p.u_val = 128 /\ p.v_val = 128)
              => (p.r = 255 /\ p.g = 255 /\ p.b = 255)
        /\ (p.y_val = 16 /\ p.u_val = 128 /\ p.v_val = 128)
              => (p.r = 0 /\ p.g = 0 /\ p.b = 0)

\* the white pixel was converted
C17_Witness ==
    \E p \in Pixels :
        /\ p.y_val = 235 /\ p.u_val = 128 /\ p.v_val = 128
        /\ p.r = 255 /\ p.g = 255 /\ p.b = 255

\* C18: a pixel is packed as five bits of red, six of green and five of
\* blue, the value fits 16 bits, and its high byte is stored at offset
\* 2*(row*W + col) and its low byte at the next; white packs to 0xFFFF and
\* black to 0.
C18_PackedBigEndian ==
    \A w \in Workers :
        wk[w].px # <<>>
        => LET p == wk[w].px
               buf == heap[wk[w].cb1]
               at == 2 * (p.row * OLED_WIDTH + p.col)
           IN /\ p.color = (p.r \div 8) * 2048 + (p.g \div 4) * 32 + (p.b \div 8)
              /\ p.color \in 0..65535
              /\ buf[at + 1] = p.color \div 256
              /\ buf[at + 2] = p.color % 256
              /\ (p.r = 255 /\ p.g = 255 /\ p.b = 255) => p.color = 65535
              /\ (p.r = 0 /\ p.g = 0 /\ p.b = 0) => p.color = 0

\* a pixel whose two bytes differ was stored: magenta, 0xF81F
C18_Witness ==
    \E w \in Workers :
        /\ wk[w].px # <<>>
        /\ wk[w].px.r = 255 /\ wk[w].px.g = 0 /\ wk[w].px.b = 255
        /\ wk[w].px.color = 63519
        /\ heap[wk[w].cb1][wk[w].px.pos + 1] = 248
        /\ heap[wk[w].cb1][wk[w].px.pos + 2] = 31

\* the colour of pixel (row, col) of frame f, with the indices the frame
\* format prescribes
RefColor(f, row, col) ==
    LET W == OLED_WIDTH
        H == OLED_HEIGHT
        y == f[row * W + col + 1]
        u == f[W * H + (row \div 2) * (W \div 2) + (col \div 2) + 1]
        v == f[W * H + (W * H) \div 4 + (row \div 2) * (W \div 2) + (col \div 2) + 1]
        rgb == Reference(y, u, v)
    IN (rgb[1] \div 8) * 2048 + (rgb[2] \div 4) * 32 + (rgb[3] \div 8)

\* C19: in the buffer the pass hands to the display every pixel (row, col)
\* has its luma from index row*W + col and its chroma from sample
\* (row/2, col/2); all W*H pixels were processed, and the positions of the
\* pixels are distinct and cover the buffer, each written by one pixel only.
C19_PassCoversEveryPixel ==
    /\ \A w \in Workers :
          wk[w].pc = "d_display"
          => /\ wk[w].row = OLED_HEIGHT
             /\ \A row \in 0..(OLED_HEIGHT - 1), col \in 0..(OLED_WIDTH - 1) :
                   LET buf == heap[DisplayArg(w)]
                       at == 2 * (row * OLED_WIDTH + col)
                       color == RefColor(DcfFrame(w), row, col)
                   IN /\ buf[at + 1] = color \div 256
                      /\ buf[at + 2] = color % 256
    /\ LET Px == (0..(OLED_HEIGHT - 1)) \X (0..(OLED_WIDTH - 1))
       IN /\ \A p, q \in Px :
                PixelPos(p[1], p[2]) = PixelPos(q[1], q[2]) => p = q
          /\ {PixelPos(p[1], p[2]) : p \in Px}
                = {n \in 0..(buffer_size - 1) : n % 2 = 0}

\* a frame of the test pattern, every byte of it different, was converted
\* and is being presented
C19_Witness ==
    \E w \in Workers :
        /\ wk[w].pc = "d_display"
        /\ DcfFrame(w) = SourceFrame(1)
        /\ \A j \in 1..buffer_size : heap[DisplayArg(w)][j] # UNINIT

\* C20: in a file session and in a stream session, an iteration that
\* presented a frame (its call left both slots allocated) ends, and the next
\* frame is requested, no sooner than one frame period after it began.
C20_FramePeriodKept ==
    \A w \in Workers :
        (/\ wk[w].pc \in {"f_loop_test", "f_read", "p_test", "p_read"}
         /\ wk[w].gap # 0
         /\ oled_buffers[0] # NULL
         /\ oled_buffers[1] # NULL)
        => wk[w].gap >= frame_duration_ns


\* C21: cancellation is cooperative and terminates.  A worker presents at
\* most one frame with display_active cleared, and once stop_display has
\* cleared the flag the worker it joins ends and stop_display returns.
FramesAfterClear(w) ==
    Len(SelectSeq(presented, LAMBDA e : e.w = w /\ e.active = 0))

C21_StopTerminates ==
    /\ [](\A w \in Workers : FramesAfterClear(w) <= 1)
    /\ (mpc = "stop_join") ~> (mpc = "idle" /\ display_active = 0
                                  /\ \A w \in Workers :
                                        w = display_thread => ~Alive(w))

\* a worker presented one frame after the flag was cleared, ended, and was
\* joined
C21_Witness ==
    \E w \in Workers :
        /\ FramesAfterClear(w) = 1
        /\ joins[w] = 1
        /\ mpc = "idle"


\* C30: start_video_display on a file that cannot be opened returns -1,
\* leaves display_active at 0 and creates no worker; when pthread_create
\* fails after the flag was set, display_active is 0 again when the call
\* returns -1.
NoWorkerCreated ==
    /\ nworkers' = nworkers
    /\ wk' = wk
    /\ display_thread' = display_thread

C30_VideoStartFailures ==
    [][/\ (StartVideoCheck /\ ~AlreadyActive /\ mpc' = "idle")
          => (ret' = -1 /\ display_active' = 0 /\ NoWorkerCreated)
       /\ (StartCreate /\ marg.kind = "file" /\ nfaults' # nfaults)
          => (display_active = 1 /\ ret' = -1 /\ display_active' = 0
              /\ mpc' = "idle" /\ NoWorkerCreated)]_vars

\* a start call has failed on the one fault of the run, before any worker
\* existed: it returned -1 with the flag at 0 and no worker
C30_Witness ==
    /\ mpc = "idle"
    /\ ret = -1
    /\ nfaults = 1
    /\ display_active = 0
    /\ nworkers = 0
    /\ pipe_path = "absent"

\* C22: debounceButton returns the level L (0 or 1) exactly when its first
\* sample and all 10 interval samples read L, and returns -1 as soon as one
\* sample differs from the first, whatever the samples after it.
DebounceChecked ==
    /\ btn.fn = "debounce"
    /\ btn.pc = "done"

AllRead(L) ==
    /\ btn.first = L
    /\ Len(btn.interval) = DebounceChecks
    /\ \A k \in 1..Len(btn.interval) : btn.interval[k] = L

C22_DebounceStableOnly ==
    DebounceChecked =>
        /\ \A L \in Levels : (btn.result = L) <=> AllRead(L)
        /\ (\E k \in 1..Len(btn.interval) : btn.interval[k] # btn.first)
              => btn.result = -1

\* the first sample read 0, all ten interval samples agreed on 1, and the
\* call returned -1
C22_Witness ==
    /\ DebounceChecked
    /\ btn.first = 0
    /\ btn.interval = [k \in 1..DebounceChecks |-> 1]
    /\ btn.result = -1

\* C23: Button_Lock returns 1 only after a press, hold and release: by the
\* time it returns 1 its reads have shown the line high and, later, low.
LockReturned ==
    /\ btn.fn = "lock"
    /\ btn.pc = "done"

C23_LockNeedsPressRelease ==
    (LockReturned /\ btn.result = 1) => HighThenLow(btn.reads)

\* a step of the main loop that switches the mode
ModeSwitch == app'.state # app.state

\* C24: each press-hold-release gesture causes exactly one mode switch.
\* Every switch between Camera and Navigation is made on the return of one
\* call of Button_Lock whose own reads showed the line high and then low, so
\* no two switches share a gesture and no switch is made without one.
C24_OneSwitchPerGesture ==
    [][ModeSwitch => /\ app'.lock.result = 1
                     /\ HighThenLow(app'.lock.reads)]_vars

\* C25: a run of high reads shorter than the debounce window of 10,
\* followed by a low read, never switches the mode.
C25_NoSwitchOnJitter ==
    [][(ModeSwitch /\ HighThenLow(app'.lock.reads))
          => HighReads(app'.lock.reads) >= DebounceChecks]_vars

\* C26: while the main thread renders the Navigation overlay no session
\* worker is alive, and every worker that was created has been joined.
C26_NavigationRendersAlone ==
    app.pc = "nav_render" =>
        \A w \in Workers :
            /\ ~Alive(w)
            /\ wk[w].pc = "exited" => joins[w] = 1

\* C27: when the Camera dwell of 300 s has elapsed with no lock gesture, the
\* session is stopped and the main loop is back in Navigation mode.
C27_DwellReturnsToNavigation ==
    (app.pc = "switch" /\ app.timedout) =>
        /\ \A w \in Workers : ~Alive(w)
        /\ app.state = 1

\* C28: a stream start with PIPE_PATH naming something that is not a FIFO
\* fails and spawns no worker; an existing FIFO is reused without error; an
\* absent path is created as a FIFO.
StreamStartChecked ==
    /\ mpc = "idle"
    /\ ~AlreadyActive
    /\ StartRealtimeCheck

C28_PathMustBeFifo ==
    /\ [][StreamStartChecked =>
            CASE pipe_path = "regular" -> ret' = -1 /\ mpc' = "idle"
              [] pipe_path = "fifo" -> mpc' = "start_set" /\ pipe_path' = "fifo"
              [] pipe_path = "absent" ->
                    \/ mpc' = "start_set" /\ pipe_path' = "fifo"
                    \/ mpc' = "idle" /\ ret' = -1]_vars
    /\ [](pipe_path = "regular" => \A w \in Workers : wk[w].kind # "pipe")

\* the thread t is about to read or write latest_battery_percentage
Accessing(t) ==
    CASE t = "uart" -> bat.uart \in {"u_write", "u_print"}
      [] t = "bt" -> bat.bt = "b_read"
      [] t = "main" -> bat.nav = "n_draw"

\* C29: every read and write of latest_battery_percentage, by the UART
\* thread, the Bluetooth thread and the Navigation rendering, is made holding
\* battery_mutex, and the mutex is not held by the main thread during its
\* display call.
C29_BatteryUnderMutex ==
    /\ \A t \in {"uart", "bt", "main"} : Accessing(t) => bat.mutex = t
    /\ bat.nav = "n_display" => bat.mutex # "main"

\* ---------------------------------------------------------------------- C31
\* the positions of a file worker from the loop condition on: in the frame
\* loop of display_thread_func or in the display call made from it
FileLoopPcs == {"f_loop_test", "f_read", "f_pace"} \cup DcfPcs

InFileLoop(w) == wk[w].kind = "file" /\ wk[w].pc \in FileLoopPcs

\* C31: a file worker that has entered its frame loop returns from its
\* thread function only at the loop condition, with display_active found
\* cleared, and the one that cleared it is a stop_display that is now waiting
\* in its join; a short read or the end of the file never ends the worker.
C31_FileWorkerEndsOnStopOnly ==
    [][\A w \in Workers :
          (InFileLoop(w) /\ wk'[w].pc = "exited")
             => /\ wk[w].pc = "f_loop_test"
                /\ display_active = 0
                /\ mpc = "stop_join"
                /\ display_thread = w]_vars

\* a file worker back at the loop condition after a short read and the
\* rewind, with the flag cleared by a stop_display that waits for it
C31_Witness ==
    \E w \in Workers :
        /\ InFileLoop(w) /\ wk[w].pc = "f_loop_test"
        /\ wk[w].total_read > 0 /\ wk[w].total_read < frame_size
        /\ wk[w].pos = 0
        /\ display_active = 0 /\ mpc = "stop_join" /\ display_thread = w

\* ---------------------------------------------------------------------- C32
\* a read of the pipe by worker w returned 0 or -1
ReadFailed(w) == wk[w].fail \in {"eof", "err"}

\* where a pipe worker is after the break out of a read loop: at one of the
\* two checks of total_read, or returned
AfterBreak == {"p_first_check", "p_check", "exited"}

\* C32: a pipe worker one of whose reads returned 0 or an error is at the
\* check of total_read that follows its read loop or has returned; from then
\* on it consumes no byte of the pipe and no frame of its is presented.
C32_NoRetryAfterFailedRead ==
    [][\A w \in Workers :
          ReadFailed(w)
             => /\ wk[w].pc \in AfterBreak
                /\ wk'[w].pc \in AfterBreak
                /\ wk'[w].fail = wk[w].fail
                /\ wk'[w].pos \in {wk[w].pos, 0}
                /\ SelectSeq(presented', LAMBDA e : e.w = w) = PresentedBy(w)
                /\ wk[w].total_read < frame_size]_vars

\* the producer closed the pipe after this worker had presented a frame and
\* read half of the next one; the worker has returned
C32_Witness ==
    \E w \in Workers :
        /\ ReadFailed(w)
        /\ wk[w].pc = "exited"
        /\ Len(PresentedBy(w)) >= 1
        /\ \E v \in Workers : v # w /\ Alive(v)

\* ---------------------------------------------------------------------- C37
\* the last read of file worker w was short and was followed by the rewind,
\* and no frame was read since: its buffer holds the bytes of a short read
JustRewound(w) ==
    /\ wk[w].kind = "file"
    /\ wk[w].pc \in {"f_loop_test", "f_read"}
    /\ wk[w].pos = 0
    /\ wk[w].total_read > 0 /\ wk[w].total_read < frame_size

\* file worker w rewinds in this step
Rewinds(w) ==
    /\ wk[w].kind = "file" /\ wk[w].pc = "f_read"
    /\ wk'[w].pc = Continue

\* C37: a file worker never rewinds twice with no frame read and given to
\* display_camera_frame in between, whatever the length of the file.
C37_FramesBetweenRewinds ==
    [][\A w \in Workers : Rewinds(w) => ~JustRewound(w)]_vars

\* ---------------------------------------------------------------------- C33
\* C33: a call of Button_Lock whose first read of the line is low does not
\* return 1 and does not enter the loop that polls the line: the first read
\* is the only one it makes.
C33_LowFirstReadNoLock ==
    (LockReturned /\ Head(btn.reads) = 0)
        => /\ btn.result # 1
           /\ Len(btn.reads) = 1

\* ---------------------------------------------------------------------- C35
\* the usleep(1000) calls of the call of debounceButton so far: one before
\* each sample of the interval
Waits == Len(btn.interval)

\* C35: a call of debounceButton makes DebounceChecks waits of one
\* millisecond before it returns, whatever it reads: it never returns after
\* fewer, and a sample that disagrees only restarts the count.
C35_DebounceFullWindow ==
    btn.fn = "debounce"
        => /\ Waits <= DebounceChecks
           /\ btn.pc = "b_loop" => Waits = btn.i
           /\ btn.pc = "b_reset" => Waits = btn.i + 1
           /\ btn.pc = "done" => Waits = DebounceChecks

\* a call that returned after its very first interval sample disagreed with
\* the sample taken on entry, and whose later samples kept changing
C35_Witness ==
    /\ DebounceChecked
    /\ btn.interval[1] # btn.first
    /\ \E k \in 2..DebounceChecks : btn.interval[k] # btn.interval[1]
    /\ Waits = DebounceChecks

\* ---------------------------------------------------------------------- C38
\* C38: Button_Lock does not return while its reads of the line are high:
\* a call that made more than one read returned at its first low read after
\* the first, so the last read of every such call is low and all reads
\* between the first and the last are high; no call returns on reads that
\* are all high, however many.
C38_HeldButtonBlocks ==
    LockReturned =>
        /\ \E k \in 1..Len(btn.reads) : btn.reads[k] = 0
        /\ Len(btn.reads) >= 2 =>
              /\ btn.reads[Len(btn.reads)] = 0
              /\ \A k \in 2..(Len(btn.reads) - 1) : btn.reads[k] = 1

\* a press followed by the longest hold: the call returned 1 at the one low
\* read, its last
C38_Witness ==
    /\ LockReturned
    /\ Len(btn.reads) = MaxReads
    /\ \A k \in 1..(MaxReads - 1) : btn.reads[k] = 1
    /\ btn.reads[MaxReads] = 0
    /\ btn.result = 1

\* ---------------------------------------------------------------------- C39
\* where a pipe worker is in its first read loop, and in the read loop of
\* its frame loop
FirstFill == {"p_first_test", "p_first_read", "p_first_check"}
LoopFill == {"p_test", "p_read", "p_check"}

\* C39 as stated: whenever a pipe worker is about to read, the buffer it
\* reads into is frame_buffers[1 - active_buffer].
C39_ReadTargetIsOther ==
    \A w \in Workers :
        (wk[w].kind = "pipe" /\ wk[w].pc \in {"p_first_read", "p_read"})
            => ReadTarget(w) = 1 - wk[w].active_buffer

\* C39, amended: in the frame loop the buffer read into is
\* frame_buffers[1 - active_buffer], the one not given to
\* display_camera_frame; the first frame is read into frame_buffers[0], which
\* is frame_buffers[active_buffer], before this worker has displayed
\* anything. total_read stays within 0..frame_size, a read is made only with
\* total_read < frame_size and adds at most frame_size - total_read, and
\* active_buffer changes only at the check after a read loop, to next_buffer,
\* with total_read = frame_size.
C39_DoubleBuffering ==
    /\ [](\A w \in Workers :
            wk[w].kind = "pipe" =>
               /\ wk[w].total_read \in 0..frame_size
               /\ wk[w].active_buffer \in {0, 1}
               /\ wk[w].pc \in FirstFill =>
                     /\ wk[w].active_buffer = 0
                     /\ PresentedBy(w) = <<>>
               /\ wk[w].pc = "p_first_read" => ReadTarget(w) = 0
               /\ wk[w].pc \in LoopFill =>
                     wk[w].next_buffer = 1 - wk[w].active_buffer
               /\ wk[w].pc = "p_read" =>
                     ReadTarget(w) = 1 - wk[w].active_buffer
               /\ wk[w].pc \in {"p_first_read", "p_read"} =>
                     wk[w].total_read < frame_size
               /\ wk[w].pc \in DcfPcs => wk[w].arg = wk[w].active_buffer)
    /\ [][\A w \in Workers :
            (wk[w].kind = "pipe" /\ wk'[w].pc # "exited")
               => /\ wk'[w].active_buffer # wk[w].active_buffer
                     => /\ wk[w].pc = "p_check"
                        /\ wk[w].total_read = frame_size
                        /\ wk'[w].active_buffer = wk[w].next_buffer
                  /\ wk'[w].total_read > wk[w].total_read
                     => /\ wk[w].pc \in {"p_first_read", "p_read"}
                        /\ wk'[w].total_read <= frame_size]_vars

\* a pipe worker that displayed its first frame from frame_buffers[0] and has
\* read half of the next one into frame_buffers[1]
C39_Witness ==
    \E w \in Workers :
        /\ wk[w].kind = "pipe" /\ wk[w].pc = "p_read"
        /\ wk[w].active_buffer = 0 /\ ReadTarget(w) = 1
        /\ wk[w].total_read = frame_size \div 2
        /\ wk[w].fb[1] = SourceFrame(1)
        /\ wk[w].fb[2][1] = SourceByte(frame_size + 1)
        /\ Len(PresentedBy(w)) = 1

\* ---------------------------------------------------------------------- C36
\* C36: whatever the interleaving of the SIGINT handler with the main
\* thread, pthread_join is called at most once on each worker thread.
C36_JoinedAtMostOnce ==
    \A w \in Workers : app.join_calls[w] <= 1

\* ---------------------------------------------------------------------- C34
\* the step of the main loop that launches libcamera-vid on PIPE_PATH
LaunchesCamera == app.pc = "cam_camera" /\ app'.pc = "cam_poll"

\* C34: the camera producer is launched only while a display session is
\* active: in every step that launches it, is_display_active() is not 0.
C34_ProducerNeedsSession ==
    [][LaunchesCamera => is_display_active # 0]_vars

\* ---------------------------------------------------------------------- C40
\* the main loop is in case 1, Navigation
InNavigation == app.pc \in {"nav_while", "nav_render", "nav_leave"}

\* C40 as stated, in its last part: by the time the Navigation loop is left
\* it has made at least one button poll and one render iteration.
C40_NavigationPollsAndRenders ==
    app.pc = "nav_leave" => (app.polled /\ app.rendered)

\* C40, amended: the mode is 0 or 1; leaving the Navigation loop sets it to 0
\* and the next switch enters Camera; Navigation is entered only with the
\* mode 1 and run = 1, so it is never left before one call of Button_Lock.
\* A render iteration is made only after a poll that reported no lock: when
\* the first poll reports one, the loop is left with nothing rendered.
C40_ModeMachine ==
    /\ [](/\ app.state \in {0, 1}
          /\ app.run \in {0, 1}
          /\ (InNavigation /\ ~app.polled) => app.run = 1
          /\ app.pc = "nav_leave" => (app.polled /\ app.state = 0)
          /\ app.rendered => app.polled
          /\ (app.pc = "nav_leave" /\ ~app.rendered) => app.lock.result = 1)
    /\ [][app' # app =>
            /\ app.pc = "nav_leave" => (app'.pc = "switch" /\ app'.state = 0)
            /\ (app.pc = "switch" /\ app.state = 0) => app'.pc = "cam_stat"
            /\ app'.pc = "nav_while" /\ app.pc = "switch"
                  => (app.state = 1 /\ app.run = 1)]_vars

\* Navigation, entered again after a Camera session, is left after it has
\* polled and rendered
C40_Witness ==
    /\ app.pc = "nav_leave"
    /\ app.polled /\ app.rendered
    /\ nworkers >= 1

====
